---- MODULE Spec2Model ----
(***************************************************************************)
(* Job-processing pipeline of app/services/job_service.py: a batch of      *)
(* queue messages is processed one job at a time; each job claims its      *)
(* document with a compare-and-swap update, runs the acquisition pipeline, *)
(* saves the transcription, marks the document and acknowledges the queue  *)
(* message.  Several workers run batches concurrently against one          *)
(* documents table and one queue; the queue redelivers a message whose     *)
(* visibility timeout has expired.                                         *)
(***************************************************************************)
EXTENDS Integers, Sequences, FiniteSets, TLC

\* ---------------------------------------------------------------- bounds
MaxRetries == 2      \* max_retries handed to process_job_batch
MaxFaults == 1       \* infrastructure failures injected in one behaviour
MaxBatch == 2        \* jobs in one batch payload
MaxConcurrent == 2   \* MAX_CONCURRENT_TRANSCRIPTIONS, the size of the semaphore
MaxCallers == 4      \* transcription calls issued in one behaviour
MaxTries == 3        \* largest max_attempts handed to _retry_with_delay
MinSleep == 2        \* YTDLP_MIN_SLEEP, in clock ticks
SleepSpan == 1       \* YTDLP_MAX_SLEEP - YTDLP_MIN_SLEEP, in clock ticks
MaxTime == 7         \* clock ticks that pass after the first call
MaxClients == 3      \* concurrent callers of youtube_rate_limit
MaxCues == 3         \* cues in one subtitle document
MaxJobs == 2         \* entries of the jobs list handed to the handler
Cooldown == 2        \* cooldown_minutes, in clock ticks
MaxAlerts == 3       \* rows inserted into system_alerts
MaxShots == 3        \* timestamps of one screenshot job
MaxStarts == 2       \* loop tasks that start_worker creates
MaxPolls == 3        \* dequeue calls of the worker loops
StopTimeout == 3     \* timeout of stop_worker's wait, in clock ticks

MaxSleep == MinSleep + SleepSpan
Clients == 1..MaxClients

ReadCap == MaxRetries       \* read_ct values from max_retries on behave alike

Workers == {"w1", "w2"}
Docs == {"d1"}
Msgs == {1, 2}
Null == "null"

\* The payloads the producer enqueued: message 1 carries the document id at
\* top level, message 2 carries no identifier at all.
Payloads(m) ==
    IF m = 1 THEN {[document_id |-> "d1", message |-> Null]}
    ELSE {[document_id |-> Null, message |-> Null]}

VARIABLES doc, trans, queue, wk, faults,    \* tables, queue, batch workers
          sem, waiters, call,                 \* the transcription semaphore
          acq,                                \* one run of the acquisition steps
          rt,                                 \* one call of _retry_with_delay
          rl,                                 \* youtube_rate_limit and its callers
          ps,                                 \* one call of the subtitle parser
          ts,                                 \* one timestamp formatted and parsed
          hd,                                 \* one call of the RunPod handler
          em,                                 \* one error text of the failure path
          bt,                                 \* one batch at the gate and the limiter
          yb,                                 \* one call of run_ytdlp_binary
          al,                                 \* the alerts table and send_alert calls
          ss,                                 \* one screenshot job
          pw                                  \* the polling worker

jobVars == <<doc, trans, queue, wk, faults>>
gateVars == <<sem, waiters, call>>
acqVars == <<acq>>
utilVars == <<rt, rl, ps, ts, hd>>
svcVars == <<em, bt, yb, al, ss, pw>>

vars == <<jobVars, gateVars, acqVars, utilVars, svcVars>>

\* What the actions of one component leave alone
notJob == <<gateVars, acqVars, utilVars, svcVars>>
notGate == <<jobVars, acqVars, utilVars, svcVars>>
notAcq == <<doc, queue, wk, faults, gateVars, utilVars, svcVars>>
notRetry == <<jobVars, gateVars, acqVars, rl, ps, ts, hd, svcVars>>
notLimit == <<jobVars, gateVars, acqVars, rt, ps, ts, hd, svcVars>>
notParse == <<jobVars, gateVars, acqVars, rt, rl, ts, hd, svcVars>>
notStamp == <<jobVars, gateVars, acqVars, rt, rl, ps, hd, svcVars>>
notHandler == <<jobVars, gateVars, acqVars, rt, rl, ps, ts, svcVars>>
notText == <<jobVars, gateVars, acqVars, utilVars, bt, yb, al, ss, pw>>
notBatch == <<jobVars, gateVars, acqVars, utilVars, em, yb, al, ss, pw>>
notBinary == <<jobVars, gateVars, acqVars, utilVars, em, bt, al, ss, pw>>
notAlert == <<jobVars, gateVars, acqVars, utilVars, em, bt, yb, ss, pw>>
notShot == <<jobVars, gateVars, acqVars, utilVars, em, bt, yb, al, pw>>
notWorker == <<jobVars, gateVars, acqVars, utilVars, em, bt, yb, al, ss>>

\* ------------------------------------------------------------- job fields
\* a resolution that reads the top-level field only
ResolveIdTopOnly(top, nested) == top

\* document_id = job.get("document_id"); falls back to message.document_id
ResolveId(top, nested) == IF top # Null THEN top ELSE nested

JobOf(q, m) ==
    [msg_id |-> m, read_ct |-> q[m].read_ct,
     document_id |-> q[m].payload.document_id, message |-> q[m].payload.message]

\* ------------------------------------------------------------ queue calls
\* pgmq_delete_one / pgmq_archive_one act only on a message still in the queue
QDelete(q, m) ==
    IF q[m].state = "queued" THEN [q EXCEPT ![m].state = "deleted"] ELSE q

QArchive(q, m) ==
    IF q[m].state = "queued" THEN [q EXCEPT ![m].state = "archived"] ELSE q

\* ---------------------------------------------------------- worker record
IdleLocals ==
    [document_id |-> Null, msg_id |-> 0, read_ct |-> 0, step |-> "none",
     claimed |-> FALSE, did |-> {}, wfail |-> FALSE, source |-> Null,
     seen |-> "none", acks |-> <<>>]

\* No batch summary: the batch is not started, is running, or raised
NoSummary ==
    [ok |-> FALSE, total |-> 0, completed |-> 0, retry |-> 0, archived |-> 0,
     deleted |-> 0]

\* batch is the state of the worker's process_job_batch call; payload keeps
\* the msg_id of each job of payload["jobs"], in array order
IdleWorker ==
    [pc |-> "idle", batch |-> "none", jobs |-> <<>>, results |-> <<>>,
     out |-> NoSummary, payload |-> <<>>] @@ IdleLocals

\* An exception leaves process_single_job and so process_job_batch
RaisedWorker ==
    [pc |-> "idle", batch |-> "raised", jobs |-> <<>>, results |-> <<>>,
     out |-> NoSummary, payload |-> <<>>] @@ IdleLocals

\* a count that takes every result for one of the wanted status
CountAll(results, s) == Len(results)

\* sum(1 for r in results if r.get("status") == s)
CountStatus(results, s) ==
    Cardinality({i \in 1..Len(results) : results[i].status = s})

\* The dict process_job_batch returns
Summary(njobs, results) ==
    [ok |-> TRUE, total |-> njobs,
     completed |-> CountStatus(results, "completed"),
     retry |-> CountStatus(results, "retry"),
     archived |-> CountStatus(results, "archived"),
     deleted |-> CountStatus(results, "deleted")]

\* The result dict of the running job; claimed and wfail record whether the
\* job's own claim succeeded and whether its failure-path status write failed,
\* acks the queue calls the job issued for its message
Result(r, status, reason) ==
    [msg_id |-> r.msg_id, status |-> status, reason |-> reason,
     document_id |-> r.document_id, read_ct |-> r.read_ct,
     claimed |-> r.claimed, wfail |-> r.wfail, acks |-> r.acks]

\* a loop that puts each result in front of the earlier ones
AfterReturnPrepends(r, res) ==
    LET results == <<res>> \o r.results
        rest == Tail(r.jobs)
    IN  IF rest = <<>>
        THEN [pc |-> "idle", batch |-> "returned", jobs |-> <<>>, results |-> results,
              out |-> Summary(Len(results), results), payload |-> r.payload]
             @@ IdleLocals
        ELSE [pc |-> "start", batch |-> "running", jobs |-> rest, results |-> results,
              out |-> NoSummary, payload |-> r.payload] @@ IdleLocals

\* results.append(result) and the next iteration of the loop over jobs; after
\* the last job the batch returns its summary
AfterReturn(r, res) ==
    LET results == Append(r.results, res)
        rest == Tail(r.jobs)
    IN  IF rest = <<>>
        THEN [pc |-> "idle", batch |-> "returned", jobs |-> <<>>, results |-> results,
              out |-> Summary(Len(results), results), payload |-> r.payload]
             @@ IdleLocals
        ELSE [pc |-> "start", batch |-> "running", jobs |-> rest, results |-> results,
              out |-> NoSummary, payload |-> r.payload] @@ IdleLocals

\* -------------------------------------------- the transcription semaphore
Callers == 1..MaxCallers

\* Odd callers are requests to POST /transcribe, even callers are jobs of
\* the batch pipeline arriving at Step 6
Kind(c) == IF c % 2 = 1 THEN "http" ELSE "job"

\* transcription_semaphore = asyncio.Semaphore(MAX_CONCURRENT_TRANSCRIPTIONS):
\* sem is its value, waiters its queue of suspended callers
InitGate ==
    /\ sem = MaxConcurrent
    /\ waiters = <<>>
    /\ call = [c \in Callers |-> "idle"]

\* ------------------------------------------------- the acquisition steps
\* No caption track
NoTrack == [auto |-> FALSE, lang |-> Null]

\* acq follows one job through Steps 4 to 7 of process_single_job: flag is
\* the skip_subtitles field of the queue message, skip the field of the job
\* dict handed to process_single_job, tried whether the subtitle path was
\* entered, fell why it gave no result, step the value of current_step
IdleAcq ==
    [pc |-> "idle", entry |-> Null, flag |-> "absent", skip |-> "absent",
     media_format |-> Null, lang |-> Null, manual |-> {}, auto |-> {},
     track |-> NoTrack, tried |-> FALSE, attempts |-> 0, fell |-> Null,
     source |-> Null, step |-> "none"]

InitAcq == acq = IdleAcq

\* ---------------------------------------------------------------- helpers
\* No call of _retry_with_delay in progress: trace lists what each call of
\* func did, sleeps the delays of the asyncio.sleep calls
IdleRetry ==
    [pc |-> "idle", max_attempts |-> 0, delay_seconds |-> 0, attempt |-> 0,
     trace |-> <<>>, sleeps |-> <<>>, last_error |-> Null, out |-> Null]

\* _last_youtube_request = 0 and an unlocked _youtube_request_lock, read at
\* a time far from the epoch; permits lists the times of the permits given
IdleLimit ==
    [now |-> MinSleep, last |-> 0, holder |-> 0, wake |-> 0,
     pc |-> [c \in Clients |-> "idle"], permits |-> <<>>, slept |-> <<>>]

IdleParse == [format |-> Null, cues |-> <<>>, segments |-> <<>>]

\* No timestamp formatted yet.  A float is the double nearest to ms/1000: the
\* record stands for ms/1000 + err/(1000 * 2^(MantissaBits - exp)), where exp
\* is the binary exponent of the value
IdleStamp ==
    [pc |-> "idle", seconds |-> [ms |-> 0, err |-> 0, exp |-> 0], text |-> <<>>,
     back |-> [ms |-> 0, err |-> 0, exp |-> 0]]

\* No call of handler(job) in progress; ok is the value of the returned
\* dict's ok, results, error and cached tell whether it has that key
IdleHandler ==
    [pc |-> "idle", queue |-> Null, jobs |-> [is_list |-> TRUE, entries |-> <<>>],
     ok |-> FALSE, results |-> FALSE, error |-> FALSE, cached |-> FALSE]

InitUtil ==
    /\ rt = IdleRetry
    /\ rl = IdleLimit
    /\ ps = IdleParse
    /\ ts = IdleStamp
    /\ hd = IdleHandler

\* --------------------------------------------------------------- services
\* No error text built yet.  A text is a sequence of pieces, each a literal
\* or an inserted value (lit) with its number of characters (len)
IdleText ==
    [pc |-> "idle", step |-> "none", read_ct |-> 0, error_msg |-> <<>>,
     path |-> "none", written |-> <<>>]

\* No batch running: left counts the jobs not yet returned, sem the free
\* permits of the gate, held the permits the batch holds, lock the holder of
\* the rate limiter's mutex; waited records that the batch found no permit
IdleBatch ==
    [pc |-> "idle", left |-> 0, sem |-> MaxConcurrent, held |-> 0,
     lock |-> "free", waited |-> FALSE]

\* No call of run_ytdlp_binary: arg is the caller's retry_on_auth_failure,
\* retry_on_auth_failure the value of the running frame, runs the invocations
\* of the binary so far, refreshes and alerts the cookie refreshes and alerts
IdleBinary ==
    [pc |-> "idle", arg |-> FALSE, retry_on_auth_failure |-> FALSE,
     runs |-> <<>>, refreshes |-> 0, refresh |-> "none", alerts |-> 0,
     out |-> [stdout |-> "", stderr |-> "", returncode |-> 0]]

\* The system_alerts table for one alert type (created_at of each row, in
\* the order of insertion), the clock, and every caller of send_alert
AlertCallers == {"p1", "p2"}

IdleAlert ==
    [now |-> 0, alerts |-> <<>>,
     caller |-> [p \in AlertCallers |-> [pc |-> "idle", ret |-> "none"]]]

\* No screenshot job: requested is len(timestamps), i the position of the
\* loop, log the outcome of every timestamp the loop attempted
IdleShot ==
    [pc |-> "idle", requested |-> 0, i |-> 0, extracted_count |-> 0,
     failed_timestamps |-> <<>>, log |-> <<>>,
     out |-> [status |-> "none", total_extracted |-> 0, failed_timestamps |-> <<>>]]

\* The polling worker before start_worker: task is the state of every loop
\* task ever created, worker_task the global _worker_task (0 for None),
\* event the global _worker_shutdown_event, loop the position of the running
\* loop, stop the position of stop_worker, last the public call that
\* returned last; shutdown_wait counts the ticks an idle wait went on after
\* the shutdown request
IdleWorkerLoop ==
    [task |-> [t \in 1..MaxStarts |-> "none"], worker_task |-> 0,
     event |-> "none", loop |-> "none", idle_index |-> 0, waited |-> 0,
     polls |-> 0, stop |-> "none", stopwait |-> 0, last |-> "none",
     shutdown_wait |-> 0]

InitSvc ==
    /\ em = IdleText
    /\ bt = IdleBatch
    /\ yb = IdleBinary
    /\ al = IdleAlert
    /\ ss = IdleShot
    /\ pw = IdleWorkerLoop

TypeOK ==
    /\ \A d \in Docs : doc[d].status \in {"pending", "processing", "completed", "error"}
    /\ \A m \in Msgs : /\ queue[m].state \in {"queued", "deleted", "archived"}
                       /\ queue[m].read_ct \in 0..ReadCap
    /\ faults \in 0..MaxFaults
    /\ \A w \in Workers : wk[w].pc \in
          {"idle", "start", "ackStale", "fetch", "upsert", "complete", "ackDone",
           "fail", "ackArchive"}

InitTables ==
    /\ doc = [d \in Docs |-> [status |-> "pending", error |-> Null, processed |-> FALSE]]
    /\ trans = [d \in Docs |-> [rows |-> 0, source |-> Null, replaced |-> FALSE]]
    /\ wk = [w \in Workers |-> IdleWorker]
    /\ faults = 0

FreshQueue(p) ==
    [m \in Msgs |-> [state |-> "queued", visible |-> TRUE, read_ct |-> 0, payload |-> p[m]]]

Init ==
    /\ InitTables
    /\ InitGate
    /\ InitAcq
    /\ InitUtil
    /\ InitSvc
    /\ \E p \in [Msgs -> UNION {Payloads(m) : m \in Msgs}] :
         /\ \A m \in Msgs : p[m] \in Payloads(m)
         /\ queue = FreshQueue(p)

\* --------------------------------------------------------------- the queue
\* The visibility timeout of a delivered message runs out
VTExpire(m) ==
    /\ queue[m].state = "queued"
    /\ ~queue[m].visible
    /\ queue' = [queue EXCEPT ![m].visible = TRUE]
    /\ UNCHANGED <<doc, trans, wk, faults>>
    /\ UNCHANGED notJob

Visible == {m \in Msgs : queue[m].state = "queued" /\ queue[m].visible}

RECURSIVE SortedSeq(_)
SortedSeq(S) ==
    IF S = {} THEN <<>>
    ELSE LET m == CHOOSE x \in S : \A y \in S : x <= y
         IN  <<m>> \o SortedSeq(S \ {m})

Bump(rc) == IF rc < ReadCap THEN rc + 1 ELSE ReadCap

\* The queue hands the first k visible messages to a worker as one batch
\* payload; each delivery increments the message's read count.
Deliver(w, k) ==
    /\ wk[w].pc = "idle"
    /\ k \in 1..MaxBatch
    /\ Cardinality(Visible) >= k
    /\ LET all == SortedSeq(Visible)
           batch == SubSeq(all, 1, k)
           S == {batch[i] : i \in 1..k}
       IN  /\ queue' = [m \in Msgs |->
                          IF m \in S
                          THEN [queue[m] EXCEPT !.visible = FALSE,
                                                !.read_ct = Bump(queue[m].read_ct)]
                          ELSE queue[m]]
           /\ wk' = [wk EXCEPT ![w] =
                       [pc |-> "start", batch |-> "running",
                        jobs |-> [i \in 1..k |-> JobOf(queue', batch[i])],
                        results |-> <<>>, out |-> NoSummary,
                        payload |-> batch] @@ IdleLocals]
    /\ UNCHANGED <<doc, trans, faults>>
    /\ UNCHANGED notJob

\* ------------------------------------------------------ document writes
\* update({processing_status: processing}).eq(id).eq(processing_status, pending)
ClaimRows(d, id) == IF d[id].status = "pending" THEN 1 ELSE 0

\* the claim without its precondition on the stored status
ClaimUpdateUnguarded(d, id) == [d EXCEPT ![id].status = "processing"]

ClaimUpdate(d, id) ==
    IF d[id].status = "pending" THEN [d EXCEPT ![id].status = "processing"] ELSE d

\* update({processing_status: completed, processed_at, processing_error: None})
CompleteUpdate(d, id) ==
    [d EXCEPT ![id] = [status |-> "completed", error |-> Null, processed |-> TRUE]]

\* update({processing_status: pending, processing_error: "Retry n/max: ..."})
RetryUpdate(d, id) ==
    [d EXCEPT ![id].status = "pending", ![id].error = "retry"]

\* update({processing_status: error, processing_error: "Failed after n attempts..."})
ErrorUpdate(d, id) ==
    [d EXCEPT ![id].status = "error", ![id].error = "final"]

\* insert(upsert_data): a write that adds a row whether or not one exists
Insert(t, id, source) ==
    [t EXCEPT ![id] = [rows |-> t[id].rows + 1, source |-> source,
                       replaced |-> t[id].replaced]]

\* upsert(upsert_data, on_conflict="document_id"); replaced records that a
\* write met an existing row for the document
Upsert(t, id, source) ==
    [t EXCEPT ![id] = [rows |-> IF t[id].rows = 0 THEN 1 ELSE t[id].rows,
                       source |-> source,
                       replaced |-> t[id].replaced \/ t[id].rows > 0]]

\* a retry test that never gives up
RetriesNeverExhausted(rc) == FALSE

\* if read_ct >= max_retries
RetriesExhausted(rc) == rc >= MaxRetries

CanFault == faults < MaxFaults

\* ------------------------------------------------------ process_single_job
\* The locals of a job that has just read its fields
Begin(r) ==
    LET j == Head(r.jobs)
    IN  [r EXCEPT !.msg_id = j.msg_id, !.read_ct = j.read_ct,
                  !.document_id = ResolveId(j.document_id, j.message),
                  !.step = "initialization"]

\* int(job.get("read_ct")) on a null read count, or get_supabase_client()
\* without a client, raises before the try block; the exception leaves
\* process_single_job and process_job_batch
JobRaises(w) ==
    /\ wk[w].pc = "start"
    /\ CanFault
    /\ faults' = faults + 1
    /\ wk' = [wk EXCEPT ![w] = RaisedWorker]
    /\ UNCHANGED <<doc, trans, queue>>
    /\ UNCHANGED notJob

\* the missing-identifier branch acknowledging like a stale message
MissingIdDeletes(w) ==
    /\ wk[w].pc = "start"
    /\ LET r == [Begin(wk[w]) EXCEPT !.acks = Append(@, "delete")]
       IN  /\ r.document_id = Null
           /\ queue' = QDelete(queue, r.msg_id)
           /\ wk' = [wk EXCEPT ![w] = AfterReturn(r, Result(r, "deleted", "not pending"))]
    /\ UNCHANGED <<doc, trans, faults>>
    /\ UNCHANGED notJob

\* if not document_id: _ack_archive(...); return archived
MissingId(w) ==
    /\ wk[w].pc = "start"
    /\ LET r == [Begin(wk[w]) EXCEPT !.acks = Append(@, "archive")]
       IN  /\ r.document_id = Null
           /\ \E okcall \in BOOLEAN :
                /\ ~okcall => CanFault
                /\ faults' = IF okcall THEN faults ELSE faults + 1
                /\ queue' = IF okcall THEN QArchive(queue, r.msg_id) ELSE queue
                /\ wk' = [wk EXCEPT ![w] =
                            AfterReturn(r, Result(r, "archived", "missing document_id"))]
    /\ UNCHANGED <<doc, trans>>
    /\ UNCHANGED notJob

\* Step 1: the compare-and-swap claim
Claim(w) ==
    /\ wk[w].pc = "start"
    /\ LET b == Begin(wk[w])
           id == b.document_id
           \* seen records the stored status the claim call met
           r == [b EXCEPT !.step = "claiming document", !.did = {"claim"},
                          !.seen = IF id = Null THEN "none" ELSE doc[id].status]
       IN  /\ id # Null
           /\ \/ /\ CanFault                       \* the update call raises
                 /\ faults' = faults + 1
                 /\ wk' = [wk EXCEPT ![w] = [r EXCEPT !.pc = "fail"]]
                 /\ UNCHANGED doc
              \/ /\ ClaimRows(doc, id) > 0         \* claim_result.data has a row
                 /\ doc' = ClaimUpdate(doc, id)
                 /\ wk' = [wk EXCEPT ![w] = [r EXCEPT !.pc = "fetch", !.claimed = TRUE]]
                 /\ UNCHANGED faults
              \/ /\ ClaimRows(doc, id) = 0         \* not pending: stale message
                 /\ doc' = ClaimUpdate(doc, id)
                 /\ wk' = [wk EXCEPT ![w] = [r EXCEPT !.pc = "ackStale"]]
                 /\ UNCHANGED faults
    /\ UNCHANGED <<trans, queue>>
    /\ UNCHANGED notJob

\* the stale branch acknowledging with an archive call
AckStaleArchives(w) ==
    /\ wk[w].pc = "ackStale"
    /\ LET r == [wk[w] EXCEPT !.did = @ \cup {"archive"}, !.acks = Append(@, "archive")]
       IN  \E okcall \in BOOLEAN :
             /\ ~okcall => CanFault
             /\ faults' = IF okcall THEN faults ELSE faults + 1
             /\ queue' = IF okcall THEN QArchive(queue, r.msg_id) ELSE queue
             /\ wk' = [wk EXCEPT ![w] =
                         AfterReturn(r, Result(r, "deleted", "not pending"))]
    /\ UNCHANGED <<doc, trans>>
    /\ UNCHANGED notJob

\* _ack_delete for a document that was not pending; return deleted
AckStale(w) ==
    /\ wk[w].pc = "ackStale"
    /\ LET r == [wk[w] EXCEPT !.did = @ \cup {"delete"}, !.acks = Append(@, "delete")]
       IN  \E okcall \in BOOLEAN :
             /\ ~okcall => CanFault
             /\ faults' = IF okcall THEN faults ELSE faults + 1
             /\ queue' = IF okcall THEN QDelete(queue, r.msg_id) ELSE queue
             /\ wk' = [wk EXCEPT ![w] =
                         AfterReturn(r, Result(r, "deleted", "not pending"))]
    /\ UNCHANGED <<doc, trans>>
    /\ UNCHANGED notJob

\* Steps 2 to 6: select and validate the document, try the platform
\* subtitles, else extract the audio and transcribe it.  None of these steps
\* writes a document, a transcription or the queue; the step that raises, if
\* any, is current_step.
PipelineSteps ==
    <<"fetching document details", "validating document data",
      "extracting platform subtitles", "extracting audio", "transcribing audio">>

\* the input errors of Steps 2 and 3 treated as permanent: archived at once
InputErrorsArchive(w) ==
    /\ wk[w].pc = "fetch"
    /\ \E i \in {1, 2} :
         wk' = [wk EXCEPT ![w] =
                  [wk[w] EXCEPT !.pc = "ackArchive", !.step = PipelineSteps[i],
                                !.did = @ \cup {"fetch"}]]
    /\ UNCHANGED <<doc, trans, queue, faults>>
    /\ UNCHANGED notJob

Pipeline(w) ==
    /\ wk[w].pc = "fetch"
    /\ \E try_subs \in BOOLEAN :
         LET path == IF try_subs THEN {"fetch", "subs"} ELSE {"fetch"}
             r == wk[w]
         IN  \/ \E i \in {1, 2} :                 \* not found, no URL, bad format
                  wk' = [wk EXCEPT ![w] =
                           [r EXCEPT !.pc = "fail", !.step = PipelineSteps[i],
                                     !.did = @ \cup {"fetch"}]]
             \/ /\ try_subs                       \* subtitle_result is not None
                /\ wk' = [wk EXCEPT ![w] =
                            [r EXCEPT !.pc = "upsert", !.step = PipelineSteps[3],
                                      !.did = @ \cup path, !.source = "subtitle"]]
             \/ wk' = [wk EXCEPT ![w] =          \* Audio extraction failed
                         [r EXCEPT !.pc = "fail", !.step = PipelineSteps[4],
                                   !.did = @ \cup path \cup {"audio"}]]
             \/ wk' = [wk EXCEPT ![w] =          \* Transcription failed
                         [r EXCEPT !.pc = "fail", !.step = PipelineSteps[5],
                                   !.did = @ \cup path \cup {"audio", "transcribe"}]]
             \/ wk' = [wk EXCEPT ![w] =          \* transcription returned
                         [r EXCEPT !.pc = "upsert", !.step = PipelineSteps[5],
                                   !.did = @ \cup path \cup {"audio", "transcribe"},
                                   !.source = "ai"]]
    /\ UNCHANGED <<doc, trans, queue, faults>>
    /\ UNCHANGED notJob

\* the upsert with its failure swallowed instead of re-raised
SaveTranscriptionSwallows(w) ==
    /\ wk[w].pc = "upsert"
    /\ LET r == [wk[w] EXCEPT !.step = "saving transcription to database"]
       IN  \/ /\ trans' = Upsert(trans, r.document_id, r.source)
              /\ wk' = [wk EXCEPT ![w] =
                          [r EXCEPT !.pc = "complete", !.did = @ \cup {"upsert"}]]
              /\ UNCHANGED faults
           \/ /\ CanFault
              /\ faults' = faults + 1
              /\ wk' = [wk EXCEPT ![w] = [r EXCEPT !.pc = "complete"]]
              /\ UNCHANGED trans
    /\ UNCHANGED <<doc, queue>>
    /\ UNCHANGED notJob

\* Step 7: upsert into document_transcriptions
SaveTranscription(w) ==
    /\ wk[w].pc = "upsert"
    /\ LET r == [wk[w] EXCEPT !.step = "saving transcription to database"]
       IN  \/ /\ trans' = Upsert(trans, r.document_id, r.source)
              /\ wk' = [wk EXCEPT ![w] =
                          [r EXCEPT !.pc = "complete", !.did = @ \cup {"upsert"}]]
              /\ UNCHANGED faults
           \/ /\ CanFault                          \* Database save failed
              /\ faults' = faults + 1
              /\ wk' = [wk EXCEPT ![w] = [r EXCEPT !.pc = "fail"]]
              /\ UNCHANGED trans
    /\ UNCHANGED <<doc, queue>>
    /\ UNCHANGED notJob

\* Step 8: mark the document completed
Complete(w) ==
    /\ wk[w].pc = "complete"
    /\ LET r == [wk[w] EXCEPT !.step = "marking document as completed"]
       IN  \/ /\ doc' = CompleteUpdate(doc, r.document_id)
              /\ wk' = [wk EXCEPT ![w] =
                          [r EXCEPT !.pc = "ackDone", !.did = @ \cup {"complete"}]]
              /\ UNCHANGED faults
           \/ /\ CanFault                          \* Failed to mark document completed
              /\ faults' = faults + 1
              /\ wk' = [wk EXCEPT ![w] = [r EXCEPT !.pc = "fail"]]
              /\ UNCHANGED doc
    /\ UNCHANGED <<trans, queue>>
    /\ UNCHANGED notJob

\* Step 9: _ack_delete; return completed
AckDone(w) ==
    /\ wk[w].pc = "ackDone"
    /\ LET r == [wk[w] EXCEPT !.did = @ \cup {"delete"}, !.acks = Append(@, "delete")]
       IN  \E okcall \in BOOLEAN :
             /\ ~okcall => CanFault
             /\ faults' = IF okcall THEN faults ELSE faults + 1
             /\ queue' = IF okcall THEN QDelete(queue, r.msg_id) ELSE queue
             /\ wk' = [wk EXCEPT ![w] =
                         AfterReturn(r, Result(r, "completed", Null))]
    /\ UNCHANGED <<doc, trans>>
    /\ UNCHANGED notJob

\* the failure path without the try/except around its status write: a failed
\* write leaves process_single_job as an exception
OnErrorUnprotected(w) ==
    /\ wk[w].pc = "fail"
    /\ LET r0 == wk[w]
           id == r0.document_id
           final == RetriesExhausted(r0.read_ct)
           r == [r0 EXCEPT !.did = @ \cup {IF final THEN "markError" ELSE "markRetry"}]
       IN  \/ /\ doc' = IF final THEN ErrorUpdate(doc, id) ELSE RetryUpdate(doc, id)
              /\ wk' = [wk EXCEPT ![w] =
                          IF final THEN [r EXCEPT !.pc = "ackArchive"]
                          ELSE AfterReturn(r, Result(r, "retry", Null))]
              /\ UNCHANGED faults
           \/ /\ CanFault
              /\ faults' = faults + 1
              /\ wk' = [wk EXCEPT ![w] = RaisedWorker]
              /\ UNCHANGED doc
    /\ UNCHANGED <<trans, queue>>
    /\ UNCHANGED notJob

\* except Exception: the status write of the failure path.  With retries
\* left the job returns retry here; otherwise the archive call follows.
OnError(w) ==
    /\ wk[w].pc = "fail"
    /\ LET r0 == wk[w]
           id == r0.document_id
           final == RetriesExhausted(r0.read_ct)
           r == [r0 EXCEPT !.did = @ \cup {IF final THEN "markError" ELSE "markRetry"}]
       IN  \E okwrite \in BOOLEAN :
             /\ ~okwrite => CanFault
             /\ faults' = IF okwrite THEN faults ELSE faults + 1
             /\ doc' = IF ~okwrite THEN doc
                       ELSE IF final THEN ErrorUpdate(doc, id)
                       ELSE RetryUpdate(doc, id)
             /\ LET r2 == [r EXCEPT !.wfail = ~okwrite]
                IN  wk' = [wk EXCEPT ![w] =
                             IF final THEN [r2 EXCEPT !.pc = "ackArchive"]
                             ELSE AfterReturn(r2, Result(r2, "retry", Null))]
    /\ UNCHANGED <<trans, queue>>
    /\ UNCHANGED notJob

\* _ack_archive after the error write; return archived
AckArchive(w) ==
    /\ wk[w].pc = "ackArchive"
    /\ LET r == [wk[w] EXCEPT !.did = @ \cup {"archive"}, !.acks = Append(@, "archive")]
       IN  \E okcall \in BOOLEAN :
             /\ ~okcall => CanFault
             /\ faults' = IF okcall THEN faults ELSE faults + 1
             /\ queue' = IF okcall THEN QArchive(queue, r.msg_id) ELSE queue
             /\ wk' = [wk EXCEPT ![w] =
                         AfterReturn(r, Result(r, "archived", Null))]
    /\ UNCHANGED <<doc, trans>>
    /\ UNCHANGED notJob

Next ==
    \/ \E m \in Msgs : VTExpire(m)
    \/ \E w \in Workers, k \in 1..MaxBatch : Deliver(w, k)
    \/ \E w \in Workers : JobRaises(w)
    \/ \E w \in Workers : MissingId(w)
    \/ \E w \in Workers : Claim(w)
    \/ \E w \in Workers : AckStale(w)
    \/ \E w \in Workers : Pipeline(w)
    \/ \E w \in Workers : SaveTranscription(w)
    \/ \E w \in Workers : Complete(w)
    \/ \E w \in Workers : AckDone(w)
    \/ \E w \in Workers : OnError(w)
    \/ \E w \in Workers : AckArchive(w)

Spec == Init /\ [][Next]_vars

\* ------------------------------------------------------------ vocabulary
\* w is between its successful claim and its complete/markRetry/markError write
InWindow(w) ==
    /\ wk[w].claimed
    /\ wk[w].pc \in {"fetch", "upsert", "complete", "fail"}

\* In this step w's job appended its result (process_single_job returned)
Returned(w) == Len(wk'[w].results) = Len(wk[w].results) + 1

LastResult(w) == wk'[w].results[Len(wk'[w].results)]

\* In this step w issued the claim update for document id
ClaimStep(w) == wk[w].pc = "start" /\ wk'[w].did = {"claim"}

\* ------------------------------------------------------------------ C1
\* C1: a WorkItem is claimed by at most one job execution at a time: no two
\* executions are both between their successful claim and their status write
\* for the same WorkItem.
C1_SingleClaimant ==
    \A w1, w2 \in Workers :
        (w1 # w2 /\ InWindow(w1) /\ InWindow(w2))
            => wk[w1].document_id # wk[w2].document_id

\* ------------------------------------------------------------------ C2
\* C2: the claim sets the status to processing only when the stored status is
\* pending; on a WorkItem that is processing, completed or error the claim
\* does not succeed and leaves every field of the WorkItem unchanged.
C2_ClaimOnlyPending ==
    [][\A w \in Workers :
         ClaimStep(w) =>
           LET id == wk'[w].document_id
           IN  /\ doc[id].status # "pending" =>
                     /\ doc' = doc
                     /\ ~wk'[w].claimed
                     /\ wk'[w].pc \in {"ackStale", "fail"}
               /\ wk'[w].claimed =>
                     /\ doc[id].status = "pending"
                     /\ doc' = [doc EXCEPT ![id].status = "processing"]
               /\ doc'[id].status = "processing" =>
                     doc[id].status \in {"pending", "processing"}]_vars

\* A claim was attempted on a WorkItem that is not pending and reported failure
C2_Witness ==
    \E w \in Workers :
        /\ wk[w].pc = "ackStale"
        /\ doc[wk[w].document_id].status \in {"processing", "completed", "error"}

\* ------------------------------------------------------------------ C3
\* C3: a job whose pipeline fails after a successful claim with read_ct below
\* max_retries returns retry with the message neither deleted nor archived
\* and the WorkItem status pending.
C3_RetryLeavesPending ==
    [][\A w \in Workers :
         (wk[w].pc = "fail" /\ wk[w].claimed /\ ~RetriesExhausted(wk[w].read_ct)
            /\ Returned(w))
         => /\ LastResult(w).status = "retry"
            /\ doc'[wk[w].document_id].status = "pending"
            /\ queue'[wk[w].msg_id].state = "queued"]_vars

\* ------------------------------------------------------------------ C4
\* C4: a job whose pipeline fails with read_ct at or above max_retries returns
\* archived with the message archived (not deleted) and the WorkItem status
\* error.
C4_ExhaustedArchives ==
    [][\A w \in Workers :
         (wk[w].pc = "ackArchive" /\ Returned(w))
         => /\ LastResult(w).status = "archived"
            /\ queue'[wk[w].msg_id].state = "archived"
            /\ doc'[wk[w].document_id].status = "error"]_vars

\* ------------------------------------------------------------------ C5
\* C5: a job delivered for a WorkItem that is not pending runs no pipeline
\* step, records no error on the WorkItem, deletes the message and returns
\* deleted.
C5_StaleIsDeleted ==
    [][\A w \in Workers :
         /\ (ClaimStep(w) /\ doc[wk'[w].document_id].status # "pending")
               => wk'[w].pc = "ackStale" /\ doc' = doc
         /\ (wk[w].seen \in {"processing", "completed", "error"} /\ wk'[w] # wk[w])
               => /\ wk[w].did = {"claim"}
                  /\ doc' = doc
                  /\ trans' = trans
                  /\ Returned(w)
                  /\ LastResult(w).status = "deleted"
                  /\ \/ queue' = QDelete(queue, wk[w].msg_id)
                     \/ faults' # faults /\ queue' = queue]_vars

\* ------------------------------------------------------------------ C6
\* C6: on a successful run the upsert precedes complete() and complete()
\* precedes the deletion of the message: a WorkItem becomes completed only by
\* a run whose upsert succeeded, and a job returns completed (deleting the
\* message) only after it marked the WorkItem completed.
C6_UpsertCompleteDelete ==
    [][/\ \A d \in Docs :
            (doc'[d].status = "completed" /\ doc[d].status # "completed")
            => \E w \in Workers :
                 /\ wk[w].pc = "complete" /\ wk[w].document_id = d
                 /\ wk'[w].pc = "ackDone"
                 /\ "upsert" \in wk[w].did
                 /\ trans[d].rows = 1
       /\ \A w \in Workers :
            (Returned(w) /\ LastResult(w).status = "completed")
            => /\ {"upsert", "complete"} \subseteq wk[w].did
               /\ "delete" \notin wk[w].did
               /\ doc[wk[w].document_id].processed]_vars

\* A job returned completed
C6_Witness ==
    \E w \in Workers : \E i \in 1..Len(wk[w].results) :
        wk[w].results[i].status = "completed"

\* ------------------------------------------------------------------ C7
\* C7: a failed status write in the failure path never aborts the
\* acknowledgment decision: after a failed markError write the archive call
\* is still made and the job returns archived; after a failed markRetry write
\* the job returns retry and leaves the message alone; the job returns
\* normally in both cases.
C7_WriteFailureKeepsAck ==
    [][\A w \in Workers :
         /\ (wk[w].pc = "fail" /\ wk'[w] # wk[w] /\ faults' # faults)
               => /\ wk'[w].batch # "raised"
                  /\ doc' = doc
                  /\ IF RetriesExhausted(wk[w].read_ct)
                     THEN wk'[w].pc = "ackArchive" /\ wk'[w].wfail
                     ELSE /\ Returned(w)
                          /\ LastResult(w).status = "retry"
                          /\ LastResult(w).wfail
                          /\ queue' = queue
         /\ (wk[w].pc = "ackArchive" /\ wk[w].wfail /\ wk'[w] # wk[w])
               => /\ Returned(w)
                  /\ LastResult(w).status = "archived"
                  /\ \/ queue' = QArchive(queue, wk[w].msg_id)
                     \/ faults' # faults /\ queue' = queue]_vars

\* A job whose markError write failed returned archived
C7_Witness ==
    \E w \in Workers : \E i \in 1..Len(wk[w].results) :
        /\ wk[w].results[i].wfail
        /\ wk[w].results[i].status = "archived"
        /\ queue[wk[w].results[i].msg_id].state = "archived"

\* ------------------------------------------------------------------ C8
\* C8: process_job_batch never raises because of an individual job: every
\* batch ends with a summary that carries one result per job.
C8_BatchNeverRaises ==
    \A w \in Workers :
        /\ wk[w].batch # "raised"
        /\ wk[w].batch = "returned" => wk[w].out.total = Len(wk[w].results)

\* ------------------------------------------------------------------ C9
\* The scheduling the claim assumes: a running job takes its next step, an
\* expired visibility timeout makes the message visible again, and an idle
\* worker is handed the visible messages.  Infrastructure failures are
\* transient (at most MaxFaults of them).
JobStep(w) ==
    \/ MissingId(w) \/ Claim(w) \/ AckStale(w) \/ Pipeline(w)
    \/ SaveTranscription(w) \/ Complete(w) \/ AckDone(w) \/ OnError(w)
    \/ AckArchive(w)

Fairness ==
    /\ \A w \in Workers : WF_vars(JobStep(w))
    /\ \A w \in Workers : WF_vars(\E k \in 1..MaxBatch : Deliver(w, k))
    /\ \A m \in Msgs : WF_vars(VTExpire(m))

SpecLive == Spec /\ Fairness

\* C9: under a queue that redelivers every unacknowledged message, every
\* message is eventually terminated by a delete or an archive (one state per
\* message: never both), and no message stays in the queue forever.
C9_EventuallyTerminated ==
    \A m \in Msgs : <>(queue[m].state \in {"deleted", "archived"})

\* A message was terminated on a redelivery
C9_Witness ==
    \E m \in Msgs : queue[m].state \in {"deleted", "archived"} /\ queue[m].read_ct >= 2

Gate == [sem |-> sem, waiters |-> waiters, call |-> call]

SetGate(g) ==
    /\ sem' = g.sem
    /\ waiters' = g.waiters
    /\ call' = g.call

\* a semaphore that lets every caller through
NeverLocked == FALSE

\* Semaphore.locked(): no permit left, or callers queued before this one
Locked == sem = 0 \/ waiters # <<>>

\* The first queued caller that was not woken yet, 0 if there is none
FirstWaiting(g) ==
    LET I == {i \in 1..Len(g.waiters) : g.call[g.waiters[i]] = "waiting"}
    IN  IF I = {} THEN 0
        ELSE g.waiters[CHOOSE i \in I : \A j \in I : i <= j]

\* Semaphore._wake_up_next(): hands a permit to the first queued caller
WakeUpNext(g) ==
    LET c == FirstWaiting(g)
    IN  IF c = 0 THEN g
        ELSE [g EXCEPT !.sem = @ - 1, !.call[c] = "granted"]

\* a release that returns the permit and wakes nobody
ReleaseNoWake(g) == [g EXCEPT !.sem = @ + 1]

\* Semaphore.release(), the exit of the async with block
Release(g) == WakeUpNext([g EXCEPT !.sem = @ + 1])

Remove(ws, c) == SelectSeq(ws, LAMBDA x : x # c)

\* Semaphore.acquire(), the entry of the async with block: the caller takes
\* a permit and runs the engine, or joins the queue and is suspended
Acquire(c) ==
    /\ call[c] = "idle"
    /\ IF ~Locked
       THEN SetGate([Gate EXCEPT !.sem = @ - 1, !.call[c] = "running"])
       ELSE SetGate([Gate EXCEPT !.waiters = Append(@, c), !.call[c] = "waiting"])

\* POST /transcribe
TranscribeAudio(c) ==
    /\ Kind(c) = "http"
    /\ Acquire(c)
    /\ UNCHANGED notGate

\* Step 6 of process_single_job
JobTranscribe(c) ==
    /\ Kind(c) = "job"
    /\ Acquire(c)
    /\ UNCHANGED notGate

\* A woken caller resumes inside acquire(): it leaves the queue, passes a
\* free permit on to the next queued caller, and runs the engine
Resume(c) ==
    /\ call[c] = "granted"
    /\ LET g == [Gate EXCEPT !.waiters = Remove(@, c), !.call[c] = "running"]
       IN  SetGate(IF g.sem > 0 THEN WakeUpNext(g) ELSE g)
    /\ UNCHANGED notGate

\* the engine raising past a block that does not give the permit back
EngineRaisesLeaks(c) ==
    /\ call[c] = "running"
    /\ SetGate([Gate EXCEPT !.call[c] = "raised"])
    /\ UNCHANGED notGate

\* _transcribe_audio_internal returns; the block exits
EngineReturns(c) ==
    /\ call[c] = "running"
    /\ SetGate(Release([Gate EXCEPT !.call[c] = "returned"]))
    /\ UNCHANGED notGate

\* _transcribe_audio_internal raises; the block exits with the exception
EngineRaises(c) ==
    /\ call[c] = "running"
    /\ SetGate(Release([Gate EXCEPT !.call[c] = "raised"]))
    /\ UNCHANGED notGate

NextGate ==
    \/ \E c \in Callers : TranscribeAudio(c)
    \/ \E c \in Callers : JobTranscribe(c)
    \/ \E c \in Callers : Resume(c)
    \/ \E c \in Callers : EngineReturns(c)
    \/ \E c \in Callers : EngineRaises(c)

SpecGate == Init /\ [][NextGate]_vars

\* Callers whose engine invocation is in progress, and callers holding a
\* permit they were handed while suspended
Running == {c \in Callers : call[c] = "running"}

Granted == {c \in Callers : call[c] = "granted"}

Finished == {c \in Callers : call[c] \in {"returned", "raised"}}

\* ----------------------------------------------------------------- C11
\* C11: at every instant the number of engine invocations in progress,
\* counted over the callers of POST /transcribe and the jobs of the batch
\* pipeline together, is at most the configured maximum, however many
\* callers there are.
C11_AtMostMaxRunning ==
    Cardinality(Running) <= MaxConcurrent

\* The maximum is reached by an HTTP caller and a job together while callers
\* of both kinds are suspended
C11_Witness ==
    /\ Cardinality(Running) = MaxConcurrent
    /\ \E c, d \in Running : Kind(c) = "http" /\ Kind(d) = "job"
    /\ \E c, d \in Callers :
         /\ call[c] = "waiting" /\ call[d] = "waiting"
         /\ Kind(c) = "http" /\ Kind(d) = "job"

\* ----------------------------------------------------------------- C12
\* C12: every transcription call holds a permit while its engine invocation
\* is in progress and gives it back when the call ends, whether the engine
\* returned or raised: the free permits plus the permits held always add up
\* to the configured maximum, and once every call issued has finished all
\* permits are free.
C12_PermitsReturned ==
    /\ sem >= 0
    /\ sem + Cardinality(Running) + Cardinality(Granted) = MaxConcurrent
    /\ (\A c \in Callers : call[c] \in {"idle", "returned", "raised"})
           => sem = MaxConcurrent

\* Every caller has finished, some with a raising engine
C12_Witness ==
    /\ Finished = Callers
    /\ \E c, d \in Callers : call[c] = "raised" /\ call[d] = "returned"
    /\ sem = MaxConcurrent

\* ----------------------------------------------------------------- C13
\* The scheduling the claim assumes: every running transcription finishes,
\* and the event loop resumes a caller that was woken.
FairnessGate ==
    /\ \A c \in Callers : WF_vars(EngineReturns(c) \/ EngineRaises(c))
    /\ \A c \in Callers : WF_vars(Resume(c))

SpecGateLive == SpecGate /\ FairnessGate

\* C13: a caller that arrives while all permits are held is suspended, not
\* rejected, and every suspended caller eventually holds a permit and runs
\* its transcription.
C13_SuspendedEventuallyRuns ==
    /\ [][\A c \in Callers :
            (call[c] = "idle" /\ call'[c] # "idle")
            => /\ call'[c] \in {"waiting", "running"}
               /\ sem = 0 => call'[c] = "waiting"]_vars
    /\ \A c \in Callers : (call[c] = "waiting") ~> (call[c] = "running")

\* A caller suspended behind a full semaphore was handed a permit while
\* another caller is still suspended
C13_Witness ==
    \E c, d \in Callers : call[c] = "granted" /\ call[d] = "waiting"

\* =========================================================================
\* Steps 4 to 7 of process_single_job for one job: the platform subtitles
\* are tried for a video whose job does not carry skip_subtitles, and the
\* audio is extracted and transcribed when they give no result.
\* =========================================================================
Langs == {"es", "en", "en-US", "en-GB"}       \* languages of caption tracks

DocLangs == {Null, "es", "en-US"}             \* documents.lang

Flags == {"absent", "true", "false"}          \* skip_subtitles of a message

MaxAttempts == 3                              \* max_attempts of the retries

\* jobs.py: the Job model and the flattening loop keep msg_id, read_ct,
\* document_id and message of each job
FlattenJob(j) == [j EXCEPT !.skip_subtitles = "absent"]

\* skip_subtitles = job.get("skip_subtitles", False), read as a condition
SkipSubtitles(job) == job.skip_subtitles = "true"

\* Steps 1 to 3 done for a document with the given media_format and lang
AtStep4(entry, msg, job, mf, lang) ==
    [IdleAcq EXCEPT !.pc = "step4", !.entry = entry,
                    !.flag = msg.skip_subtitles, !.skip = job.skip_subtitles,
                    !.media_format = mf, !.lang = lang,
                    !.step = "extracting platform subtitles"]

\* POST /jobs/video-audio-transcription: the batch goes through the Job model
PostJobs(flag, mf, lang) ==
    /\ acq.pc = "idle"
    /\ LET msg == [skip_subtitles |-> flag]
       IN  acq' = AtStep4("http", msg, FlattenJob(msg), mf, lang)
    /\ UNCHANGED <<trans, notAcq>>

\* handler.py and direct callers hand the job dicts to process_job_batch
HandlerJobs(flag, mf, lang) ==
    /\ acq.pc = "idle"
    /\ LET msg == [skip_subtitles |-> flag]
       IN  acq' = AtStep4("direct", msg, msg, mf, lang)
    /\ UNCHANGED <<trans, notAcq>>

\* if media_format == "video" and not skip_subtitles
TrySubtitles ==
    /\ acq.pc = "step4"
    /\ acq' = IF acq.media_format = "video" /\ ~SkipSubtitles([skip_subtitles |-> acq.skip])
              THEN [acq EXCEPT !.pc = "extract_info", !.tried = TRUE]
              ELSE [acq EXCEPT !.pc = "audio"]
    /\ UNCHANGED <<trans, notAcq>>

\* _retry_with_delay(func, max_attempts): outcomes[i] is what attempt i of
\* func does; the first attempt that does not raise ends the retries
RetryWithDelay(outcomes, max_attempts) ==
    LET I == {i \in 1..max_attempts : outcomes[i] # "raise"}
    IN  IF I = {} THEN [result |-> "raise", attempts |-> max_attempts]
        ELSE LET i == CHOOSE x \in I : \A y \in I : x <= y
             IN  [result |-> outcomes[i], attempts |-> i]

\* target_lang = lang or 'en'
TargetLang(lang) == IF lang = Null THEN "en" ELSE lang

Fallbacks == <<"en", "en-US", "en-GB">>

\* The first English fallback among the tracks subs, Null if there is none
FirstFallback(subs) ==
    LET I == {i \in 1..Len(Fallbacks) : Fallbacks[i] \in subs}
    IN  IF I = {} THEN Null
        ELSE Fallbacks[CHOOSE i \in I : \A j \in I : i <= j]

\* subs.get(target_lang), else the loop over the fallbacks
PickLang(subs, target) == IF target \in subs THEN target ELSE FirstFallback(subs)

\* a selection that looks at the auto-generated captions first
ChooseTrackAutoFirst(manual, auto, lang, include_auto_captions) ==
    LET target == TargetLang(lang)
    IN  IF include_auto_captions /\ PickLang(auto, target) # Null
        THEN [auto |-> TRUE, lang |-> PickLang(auto, target)]
        ELSE IF PickLang(manual, target) # Null
        THEN [auto |-> FALSE, lang |-> PickLang(manual, target)]
        ELSE NoTrack

\* available_subs of _try_extract_platform_subtitles: manual subtitles first,
\* auto-generated captions if no manual track was found
ChooseTrack(manual, auto, lang, include_auto_captions) ==
    LET target == TargetLang(lang)
    IN  IF PickLang(manual, target) # Null
        THEN [auto |-> FALSE, lang |-> PickLang(manual, target)]
        ELSE IF include_auto_captions /\ PickLang(auto, target) # Null
        THEN [auto |-> TRUE, lang |-> PickLang(auto, target)]
        ELSE NoTrack

\* return None: the subtitle path gives no result and Step 5 follows
NoResult(a, why) == [a EXCEPT !.pc = "audio", !.fell = why]

\* ydl.extract_info under _retry_with_delay: the metadata with its caption
\* tracks, or None after the last attempt raised
ExtractInfo ==
    /\ acq.pc = "extract_info"
    /\ \E outcomes \in [1..MaxAttempts -> {"raise", "ok"}] :
         LET r == RetryWithDelay(outcomes, MaxAttempts)
             a == [acq EXCEPT !.attempts = r.attempts]
         IN  IF r.result = "raise"
             THEN acq' = NoResult(a, "metadata")
             ELSE \E manual, auto \in SUBSET Langs :
                    acq' = [a EXCEPT !.pc = "select", !.manual = manual,
                                     !.auto = auto]
    /\ UNCHANGED <<trans, notAcq>>

\* the choice of available_subs; None if no track is available
SelectTrack ==
    /\ acq.pc = "select"
    /\ LET t == ChooseTrack(acq.manual, acq.auto, acq.lang, TRUE)
       IN  acq' = IF t = NoTrack THEN NoResult([acq EXCEPT !.attempts = 0], "no track")
                  ELSE [acq EXCEPT !.pc = "download", !.track = t, !.attempts = 0]
    /\ UNCHANGED <<trans, notAcq>>

\* requests.get under _retry_with_delay, then response.raise_for_status():
\* an attempt raises, or returns a response with an error status or with the
\* track
Download ==
    /\ acq.pc = "download"
    /\ \E outcomes \in [1..MaxAttempts -> {"raise", "http error", "ok"}] :
         LET r == RetryWithDelay(outcomes, MaxAttempts)
             a == [acq EXCEPT !.attempts = r.attempts]
         IN  acq' = IF r.result = "ok" THEN [a EXCEPT !.pc = "parse"]
                    ELSE NoResult(a, "fetch")
    /\ UNCHANGED <<trans, notAcq>>

\* a parse error leaving _try_extract_platform_subtitles as an exception
ParseRaisesThrough ==
    /\ acq.pc = "parse"
    /\ \E parsed \in {"raise", "empty", "segments"} :
         acq' = IF parsed = "segments"
                THEN [acq EXCEPT !.pc = "save", !.source = "subtitle"]
                ELSE IF parsed = "raise"
                THEN [acq EXCEPT !.pc = "failed", !.fell = "parse error"]
                ELSE NoResult(acq, "no segments")
    /\ UNCHANGED <<trans, notAcq>>

\* _parse_subtitles_to_segments: an exception and an empty list both end in
\* return None; segments make the subtitle result
Parse ==
    /\ acq.pc = "parse"
    /\ \E parsed \in {"raise", "empty", "segments"} :
         acq' = IF parsed = "segments"
                THEN [acq EXCEPT !.pc = "save", !.source = "subtitle"]
                ELSE NoResult(acq, IF parsed = "raise" THEN "parse error"
                                   ELSE "no segments")
    /\ UNCHANGED <<trans, notAcq>>

\* Step 5: _extract_audio_from_url
ExtractAudio ==
    /\ acq.pc = "audio"
    /\ \E okcall \in BOOLEAN :
         acq' = [acq EXCEPT !.pc = IF okcall THEN "transcribe" ELSE "failed",
                            !.step = "extracting audio"]
    /\ UNCHANGED <<trans, notAcq>>

\* Step 6: _transcribe_audio_internal
Transcribe ==
    /\ acq.pc = "transcribe"
    /\ \E okcall \in BOOLEAN :
         acq' = IF okcall
                THEN [acq EXCEPT !.pc = "save", !.source = "ai",
                                 !.step = "transcribing audio"]
                ELSE [acq EXCEPT !.pc = "failed", !.step = "transcribing audio"]
    /\ UNCHANGED <<trans, notAcq>>

\* Step 7: the upsert with source = transcription_source
SaveAcquired ==
    /\ acq.pc = "save"
    /\ \E d \in Docs :
         trans' = Upsert(trans, d, acq.source)
    /\ acq' = [acq EXCEPT !.pc = "saved", !.step = "saving transcription to database"]
    /\ UNCHANGED notAcq

NextAcquire ==
    \/ \E flag \in Flags, mf \in {"video", "audio"}, lang \in DocLangs :
         PostJobs(flag, mf, lang)
    \/ \E flag \in Flags, mf \in {"video", "audio"}, lang \in DocLangs :
         HandlerJobs(flag, mf, lang)
    \/ TrySubtitles
    \/ ExtractInfo
    \/ SelectTrack
    \/ Download
    \/ Parse
    \/ ExtractAudio
    \/ Transcribe
    \/ SaveAcquired

SpecAcquire == Init /\ [][NextAcquire]_vars

\* ----------------------------------------------------------------- C14
\* C14: after any number of successful pipeline runs for one WorkItem,
\* reruns after a redelivery included, exactly one TranscriptionRecord exists
\* for it: a second successful upsert replaces the record and adds none.
C14_OneRecord ==
    \A d \in Docs :
        /\ trans[d].rows <= 1
        /\ (doc[d].processed \/ trans[d].replaced) => trans[d].rows = 1
        /\ \A w \in Workers :
             (wk[w].document_id = d /\ "upsert" \in wk[w].did) => trans[d].rows = 1

\* A rerun after a redelivery saved over the record of an earlier run and
\* completed
C14_Witness ==
    \E d \in Docs, w \in Workers : \E i \in 1..Len(wk[w].results) :
        /\ trans[d].replaced /\ trans[d].rows = 1
        /\ wk[w].results[i].document_id = d
        /\ wk[w].results[i].status = "completed"
        /\ wk[w].results[i].read_ct >= 2

\* ----------------------------------------------------------------- C15
\* C15: a job whose upsert fails is a failed job: it goes to the failure
\* path without calling complete(), the WorkItem does not become completed by
\* that run, the run does not delete the message, and it returns retry or
\* archived according to its read count.
C15_UpsertFailureFailsJob ==
    [][\A w \in Workers :
         /\ (wk[w].pc = "upsert" /\ wk'[w] # wk[w] /\ faults' # faults)
               => /\ wk'[w].pc = "fail"
                  /\ trans' = trans /\ doc' = doc /\ queue' = queue
         /\ (/\ wk[w].step = "saving transcription to database"
             /\ wk[w].pc \in {"fail", "ackArchive"}
             /\ wk'[w] # wk[w])
               => /\ {"complete", "delete"} \cap wk[w].did = {}
                  /\ doc'[wk[w].document_id].status = "completed"
                        => doc[wk[w].document_id].status = "completed"
                  /\ queue'[wk[w].msg_id].state = "deleted"
                        => queue[wk[w].msg_id].state = "deleted"
                  /\ wk[w].pc = "fail" =>
                        IF wk[w].read_ct >= MaxRetries
                        THEN wk'[w].pc = "ackArchive"
                        ELSE Returned(w) /\ LastResult(w).status = "retry"
                  /\ wk[w].pc = "ackArchive" =>
                        Returned(w) /\ LastResult(w).status = "archived"]_vars

\* A job whose upsert failed on its last delivery marked the WorkItem error
\* and is about to archive the message
C15_Witness ==
    \E w \in Workers :
        /\ wk[w].step = "saving transcription to database"
        /\ wk[w].pc = "ackArchive"
        /\ "upsert" \notin wk[w].did
        /\ doc[wk[w].document_id].status = "error"

\* ----------------------------------------------------------------- C16
\* C16: a job that fails on a delivery with read_ct below max_retries returns
\* retry and leaves the message in the queue for the next delivery; on the
\* delivery with read_ct = max_retries it returns archived, the message is
\* archived and the WorkItem is left in error.
C16_RetryThenArchive ==
    [][\A w \in Workers :
         (wk[w].pc \in {"fail", "ackArchive"} /\ Returned(w))
         => IF wk[w].read_ct < MaxRetries
            THEN /\ LastResult(w).status = "retry"
                 /\ queue'[wk[w].msg_id].state = "queued"
            ELSE /\ LastResult(w).status = "archived"
                 /\ wk[w].read_ct = MaxRetries
                 /\ queue'[wk[w].msg_id].state = "archived"
                 /\ doc'[wk[w].document_id].status = "error"]_vars

\* ----------------------------------------------------------------- C17
\* C17: within one batch the jobs are processed one at a time in array
\* order: the job in progress is the one after the results produced so far,
\* and results[i] is the result of jobs[i].
C17_BatchInOrder ==
    \A w \in Workers :
        LET n == Len(wk[w].results)
        IN  /\ n + Len(wk[w].jobs) = Len(wk[w].payload)
            /\ \A i \in 1..n : wk[w].results[i].msg_id = wk[w].payload[i]
            /\ \A j \in 1..Len(wk[w].jobs) :
                 wk[w].jobs[j].msg_id = wk[w].payload[n + j]
            /\ wk[w].pc \notin {"idle", "start"} => wk[w].msg_id = wk[w].payload[n + 1]
            /\ wk[w].batch = "returned" => wk[w].out.total = Len(wk[w].payload)

\* A batch of two jobs returned its two results
C17_Witness ==
    \E w \in Workers :
        /\ wk[w].batch = "returned"
        /\ Len(wk[w].payload) = 2
        /\ wk[w].results[1].msg_id = wk[w].payload[1]
        /\ wk[w].results[2].msg_id = wk[w].payload[2]
        /\ wk[w].payload[1] # wk[w].payload[2]

\* ----------------------------------------------------------------- C18
\* The order of preference for a requested language: manual subtitles in the
\* requested language and the English variants, then auto-generated captions
\* in the same languages
PreferenceOrder(req) ==
    <<[auto |-> FALSE, lang |-> req], [auto |-> FALSE, lang |-> "en"],
      [auto |-> FALSE, lang |-> "en-US"], [auto |-> FALSE, lang |-> "en-GB"],
      [auto |-> TRUE, lang |-> req], [auto |-> TRUE, lang |-> "en"],
      [auto |-> TRUE, lang |-> "en-US"], [auto |-> TRUE, lang |-> "en-GB"]>>

Available(t, manual, auto) == t.lang \in (IF t.auto THEN auto ELSE manual)

FirstAvailable(manual, auto, req) ==
    LET order == PreferenceOrder(req)
        I == {i \in 1..Len(order) : Available(order[i], manual, auto)}
    IN  IF I = {} THEN NoTrack
        ELSE order[CHOOSE i \in I : \A j \in I : i <= j]

\* The run is past the choice of its caption track
Selected ==
    \/ acq.pc \in {"download", "parse"}
    \/ acq.fell \in {"no track", "fetch", "parse error", "no segments"}
    \/ acq.source = "subtitle"

\* C18: for every combination of available manual and auto-generated caption
\* tracks the chosen track is the first available one in the order manual
\* requested, manual en, en-US, en-GB, auto requested, auto en, en-US, en-GB;
\* with none of them available the subtitle path reports no subtitles.
C18_FirstAvailableTrack ==
    Selected =>
        /\ acq.track = FirstAvailable(acq.manual, acq.auto, TargetLang(acq.lang))
        /\ acq.track = NoTrack <=> acq.fell = "no track"
        /\ acq.fell = "no track" => acq.source # "subtitle"

\* Auto-generated en-GB captions, the last in the order, are chosen for a
\* video whose only manual track is in a language not asked for
C18_Witness ==
    /\ acq.pc = "download"
    /\ acq.lang = "en-US"
    /\ acq.manual = {"es"}
    /\ acq.auto = {"es", "en-GB"}
    /\ acq.track = [auto |-> TRUE, lang |-> "en-GB"]

\* ----------------------------------------------------------------- C19
\* C19: the subtitle path is attempted if and only if media_format is video
\* and the skip_subtitles flag of the message is not true, for batches posted
\* to the jobs endpoint and for batches handed to process_job_batch alike.
C19_SubtitlesIffVideoNotSkipped ==
    acq.pc \notin {"idle", "step4"} =>
        (acq.tried <=> (acq.media_format = "video" /\ acq.flag # "true"))

\* ----------------------------------------------------------------- C20
\* C20: whenever the subtitle path gives no usable result (metadata query or
\* track fetch failing after the retries, no caption track, a parse error, no
\* segments) the job does not fail there: it goes on with the audio
\* extraction and the transcription, and a run that then succeeds saves the
\* record with source ai.
C20_FallsThroughToAudio ==
    /\ acq.pc = "failed" => acq.step \in {"extracting audio", "transcribing audio"}
    /\ acq.fell # Null =>
         /\ acq.tried
         /\ acq.pc \in {"audio", "transcribe", "save", "saved", "failed"}
         /\ acq.pc \in {"save", "saved"} => acq.source = "ai"
         /\ acq.pc = "saved" => \A d \in Docs : trans[d].source = "ai"

\* A run whose captions parsed to no segments saved an AI transcription
C20_Witness ==
    /\ acq.pc = "saved"
    /\ acq.fell = "no segments"
    /\ acq.source = "ai"
    /\ \E d \in Docs : trans[d].rows = 1 /\ trans[d].source = "ai"

\* =========================================================================
\* _retry_with_delay(func, max_attempts, delay_seconds): one call, attempt by
\* attempt.
\* =========================================================================
Delays == {0, 1, 3}                    \* delay_seconds

Values == {"v1", "v2"}                 \* what func returns

Errors == {"e1", "e2"}                 \* what func raises

\* for attempt in range(1, max_attempts + 1)
RetryStart(n, delay) ==
    /\ rt.pc = "idle"
    /\ rt' = [IdleRetry EXCEPT !.pc = "attempt", !.max_attempts = n,
                               !.delay_seconds = delay, !.attempt = 1]
    /\ UNCHANGED notRetry

\* a loop that raises the error of the first failed attempt
RetryAttemptFirstError(outcome) ==
    /\ rt.pc = "attempt"
    /\ LET r == [rt EXCEPT !.trace = Append(@, outcome)]
       IN  rt' = IF outcome \in Values
                 THEN [r EXCEPT !.pc = "returned", !.out = outcome]
                 ELSE LET e == IF rt.last_error = Null THEN outcome ELSE rt.last_error
                      IN  IF rt.attempt < rt.max_attempts
                          THEN [r EXCEPT !.pc = "sleep", !.last_error = e]
                          ELSE [r EXCEPT !.pc = "raised", !.last_error = e, !.out = e]
    /\ UNCHANGED notRetry

\* try: return func() / except Exception as e: last_error = e; after the last
\* attempt the loop ends and last_error is raised
RetryAttempt(outcome) ==
    /\ rt.pc = "attempt"
    /\ LET r == [rt EXCEPT !.trace = Append(@, outcome)]
       IN  rt' = IF outcome \in Values
                 THEN [r EXCEPT !.pc = "returned", !.out = outcome]
                 ELSE IF rt.attempt < rt.max_attempts
                 THEN [r EXCEPT !.pc = "sleep", !.last_error = outcome]
                 ELSE [r EXCEPT !.pc = "raised", !.last_error = outcome,
                                !.out = outcome]
    /\ UNCHANGED notRetry

\* await asyncio.sleep(delay_seconds), then the next attempt
RetrySleep ==
    /\ rt.pc = "sleep"
    /\ rt' = [rt EXCEPT !.pc = "attempt", !.attempt = @ + 1,
                        !.sleeps = Append(@, rt.delay_seconds)]
    /\ UNCHANGED notRetry

NextRetry ==
    \/ \E n \in 1..MaxTries, delay \in Delays : RetryStart(n, delay)
    \/ \E outcome \in Values \cup Errors : RetryAttempt(outcome)
    \/ RetrySleep

SpecRetry == Init /\ [][NextRetry]_vars

\* ----------------------------------------------------------------- C21
\* C21: _retry_with_delay with max_attempts = n >= 1 calls the function at
\* most n times, returns the first successful result without a further call,
\* sleeps the same delay after each failed attempt but the last, and after n
\* failed attempts raises the error of the last attempt.
C21_RetryContract ==
    LET calls == Len(rt.trace)
        failed == {i \in 1..calls : rt.trace[i] \in Errors}
    IN  /\ calls <= rt.max_attempts
        /\ \A i \in 1..calls : rt.trace[i] \in Values => i = calls
        /\ \A i \in 1..Len(rt.sleeps) : rt.sleeps[i] = rt.delay_seconds
        /\ rt.pc = "returned" =>
              /\ rt.out = rt.trace[calls]
              /\ rt.out \in Values
              /\ Len(rt.sleeps) = calls - 1
        /\ rt.pc = "raised" =>
              /\ calls = rt.max_attempts
              /\ failed = 1..calls
              /\ rt.out = rt.trace[calls]
              /\ Len(rt.sleeps) = calls - 1
        /\ rt.pc = "sleep" => Len(rt.sleeps) = calls - 1 /\ calls < rt.max_attempts
        /\ rt.pc \in {"returned", "raised"} =>
              LET outcomes == [i \in 1..rt.max_attempts |->
                                 IF i <= calls /\ rt.trace[i] \in Values
                                 THEN "ok" ELSE "raise"]
                  r == RetryWithDelay(outcomes, rt.max_attempts)
              IN  /\ r.attempts = calls
                  /\ r.result = (IF rt.pc = "returned" THEN "ok" ELSE "raise")
        /\ rt.pc = "attempt" => Len(rt.sleeps) = calls

\* Three attempts failed with different errors and the last one was raised
C21_Witness ==
    /\ rt.pc = "raised"
    /\ rt.max_attempts = 3
    /\ rt.trace = <<"e1", "e1", "e2">>
    /\ rt.out = "e2"
    /\ rt.sleeps = <<3, 3>>

\* ----------------------------------------------------------------- C22
\* The producer enqueued message 1 with the document id inside its message
\* field only; message 2 carries no identifier
NestedPayloads(m) ==
    IF m = 1 THEN [document_id |-> Null, message |-> "d1"]
    ELSE [document_id |-> Null, message |-> Null]

InitNested ==
    /\ InitTables
    /\ InitGate
    /\ InitAcq
    /\ InitUtil
    /\ InitSvc
    /\ queue = FreshQueue([m \in Msgs |-> NestedPayloads(m)])

SpecNested == InitNested /\ [][Next]_vars

\* C22: a message that carries the identifier only in its nested message
\* field is processed like one carrying it at top level: the identifier is
\* resolved once and that value is the one the job claims, fetches, saves
\* and marks, and the one its result carries; the job is never handled as one
\* without identifier.
C22_NestedIdResolved ==
    \A w \in Workers :
        /\ \A i \in 1..Len(wk[w].jobs) :
             (wk[w].jobs[i].msg_id = 1) =>
                 /\ wk[w].jobs[i].document_id = Null
                 /\ wk[w].jobs[i].message = "d1"
        /\ wk[w].msg_id = 1 =>
             /\ wk[w].document_id = "d1"
             /\ "upsert" \in wk[w].did => trans["d1"].rows = 1
        /\ \A i \in 1..Len(wk[w].results) :
             wk[w].results[i].msg_id = 1 =>
                 /\ wk[w].results[i].document_id = "d1"
                 /\ wk[w].results[i].reason # "missing document_id"
                 /\ wk[w].results[i].status = "completed" =>
                       doc["d1"].processed /\ trans["d1"].rows = 1

\* The job of the nested-only message completed its document
C22_Witness ==
    \E w \in Workers : \E i \in 1..Len(wk[w].results) :
        /\ queue[1].payload.document_id = Null
        /\ wk[w].results[i].msg_id = 1
        /\ wk[w].results[i].document_id = "d1"
        /\ wk[w].results[i].status = "completed"
        /\ doc["d1"].status = "completed"
        /\ queue[1].state = "deleted"

\* =========================================================================
\* youtube_rate_limit(): callers serialised by _youtube_request_lock; time is
\* a clock of whole ticks that never runs backwards.
\* =========================================================================
\* Time passes
Tick ==
    /\ rl.now < MinSleep + MaxTime
    /\ rl' = [rl EXCEPT !.now = @ + 1]
    /\ UNCHANGED notLimit

\* await youtube_rate_limit(): the caller asks for the lock
LimitCall(c) ==
    /\ rl.pc[c] = "idle"
    /\ rl' = [rl EXCEPT !.pc[c] = "waiting"]
    /\ UNCHANGED notLimit

\* _last_youtube_request = time.time(), then the lock is released
Permit(l, c) ==
    [l EXCEPT !.last = l.now, !.permits = Append(@, l.now), !.holder = 0,
              !.pc[c] = "permitted"]

\* async with _youtube_request_lock: the caller takes the free lock, reads
\* the clock, and is permitted at once or starts to sleep a random delay
LimitEnter(c) ==
    /\ rl.pc[c] = "waiting"
    /\ rl.holder = 0
    /\ LET elapsed == rl.now - rl.last
       IN  IF elapsed < MinSleep
           THEN \E delay \in MinSleep..MaxSleep :
                  rl' = [rl EXCEPT !.holder = c, !.pc[c] = "sleeping",
                                   !.wake = rl.now + delay,
                                   !.slept = Append(@, delay)]
           ELSE rl' = Permit([rl EXCEPT !.holder = c], c)
    /\ UNCHANGED notLimit

\* a wake-up that leaves _last_youtube_request as it was
LimitWakeNoStamp(c) ==
    /\ rl.pc[c] = "sleeping"
    /\ rl.now >= rl.wake
    /\ rl' = [rl EXCEPT !.permits = Append(@, rl.now), !.holder = 0,
                        !.pc[c] = "permitted"]
    /\ UNCHANGED notLimit

\* asyncio.sleep(delay) is over: the caller is permitted
LimitWake(c) ==
    /\ rl.pc[c] = "sleeping"
    /\ rl.now >= rl.wake
    /\ rl' = Permit(rl, c)
    /\ UNCHANGED notLimit

NextLimit ==
    \/ Tick
    \/ \E c \in Clients : LimitCall(c)
    \/ \E c \in Clients : LimitEnter(c)
    \/ \E c \in Clients : LimitWake(c)

SpecLimit == Init /\ [][NextLimit]_vars

\* ----------------------------------------------------------------- C23
\* C23: youtube_rate_limit admits one caller at a time; a caller admitted
\* less than the minimum interval after the previous permit sleeps a delay
\* between the minimum and the maximum while it holds the lock; the time of
\* the last permit is updated on every permit; any two consecutive permits
\* are at least the minimum interval apart.
C23_PermitsSpaced ==
    /\ \A c, d \in Clients :
         (rl.pc[c] = "sleeping" /\ rl.pc[d] = "sleeping") => c = d
    /\ \A c \in Clients : rl.pc[c] = "sleeping" <=> rl.holder = c
    /\ \A i \in 1..Len(rl.slept) :
         MinSleep <= rl.slept[i] /\ rl.slept[i] <= MaxSleep
    /\ rl.permits # <<>> => rl.last = rl.permits[Len(rl.permits)]
    /\ \A i \in 1..(Len(rl.permits) - 1) :
         rl.permits[i + 1] - rl.permits[i] >= MinSleep

\* Every caller was permitted, two of them after sleeping, while they had
\* called together
C23_Witness ==
    /\ \A c \in Clients : rl.pc[c] = "permitted"
    /\ Len(rl.permits) = MaxClients
    /\ Len(rl.slept) >= 2
    /\ rl.permits[2] - rl.permits[1] = MinSleep

\* =========================================================================
\* _parse_subtitles_to_segments: a subtitle file is a sequence of cues, each
\* of one kind:
\*   "text"    words, possibly inside markup
\*   "tags"    markup tags with nothing between them, such as <i></i>
\*   "blank"   one piece of whitespace (json3: a single newline seg;
\*             vtt, srt: a timestamp with no text line)
\*   "blanks"  several pieces of whitespace (json3: two or more whitespace
\*             segs; vtt, srt: whitespace lines only)
\*   "styling" no cue at all (json3: an event without segs or an append
\*             event; vtt, srt: a block without a timestamp line)
\* =========================================================================
Formats == {"json3", "vtt", "srt"}

CueKinds == {"text", "tags", "blank", "blanks", "styling"}

Segment(id, kind) == [segment_id |-> id, text |-> kind]

\* json3: events without segs, append events and single whitespace segs are
\* skipped; then segment_id is incremented, and the segment is appended only
\* if a non-whitespace seg remains (tags are not stripped)
RECURSIVE ParseJson3(_, _)
ParseJson3(events, segment_id) ==
    IF events = <<>> THEN <<>>
    ELSE LET event == Head(events)
             rest == Tail(events)
         IN  IF event \in {"styling", "blank"} THEN ParseJson3(rest, segment_id)
             ELSE IF event = "blanks" THEN ParseJson3(rest, segment_id + 1)
             ELSE <<Segment(segment_id + 1, event)>>
                      \o ParseJson3(rest, segment_id + 1)

\* vtt: lines without a timestamp are passed over; the text lines up to the
\* first empty one are joined and stripped of tags; segment_id is incremented
\* only when text remains
RECURSIVE ParseVtt(_, _)
ParseVtt(lines, segment_id) ==
    IF lines = <<>> THEN <<>>
    ELSE LET cue == Head(lines)
             rest == Tail(lines)
         IN  IF cue = "text"
             THEN <<Segment(segment_id + 1, cue)>> \o ParseVtt(rest, segment_id + 1)
             ELSE ParseVtt(rest, segment_id)

\* srt: blocks of fewer than three lines or without a timestamp line are
\* skipped; then segment_id is incremented, the text is stripped of tags, and
\* the segment is appended only if text remains
RECURSIVE ParseSrt(_, _)
ParseSrt(srt_blocks, segment_id) ==
    IF srt_blocks = <<>> THEN <<>>
    ELSE LET block == Head(srt_blocks)
             rest == Tail(srt_blocks)
         IN  IF block \in {"styling", "blank", "blanks"}
             THEN ParseSrt(rest, segment_id)
             ELSE IF block = "tags" THEN ParseSrt(rest, segment_id + 1)
             ELSE <<Segment(segment_id + 1, block)>>
                      \o ParseSrt(rest, segment_id + 1)

ParseSubtitlesToSegments(content, format) ==
    CASE format = "json3" -> ParseJson3(content, 0)
      [] format = "vtt" -> ParseVtt(content, 0)
      [] format = "srt" -> ParseSrt(content, 0)

CueSeqs == UNION {[1..n -> CueKinds] : n \in 0..MaxCues}

\* One call of the parser on a file of up to MaxCues cues
ParseCall ==
    /\ ps.format = Null
    /\ \E format \in Formats, cues \in CueSeqs :
         ps' = [format |-> format, cues |-> cues,
                segments |-> ParseSubtitlesToSegments(cues, format)]
    /\ UNCHANGED notParse

NextParse == ParseCall

SpecParse == Init /\ [][NextParse]_vars

\* ----------------------------------------------------------------- C24
\* C24: the segments returned by the parser are numbered 1..n with no gap
\* and no repeat, for json3, vtt and srt, also when cues are dropped.
C24_NumberedWithoutGap ==
    \A i \in 1..Len(ps.segments) : ps.segments[i].segment_id = i

\* =========================================================================
\* handler(job): the RunPod entry point.  An entry of the jobs list is of one
\* kind:
\*   "id"      a dict with a string document_id
\*   "missing" a dict without the key document_id
\*   "null"    a dict whose document_id is None
\*   "notdict" not a dict
\* and the jobs value itself may be something that is not a list (is_list).
\* =========================================================================
Queues == {"video_audio_transcription", "screenshot_extraction",
           "check_video_cache", "unknown"}

EntryKinds == {"id", "missing", "null", "notdict"}

JobLists ==
    {[is_list |-> TRUE, entries |-> e] :
        e \in UNION {[1..n -> EntryKinds] : n \in 0..MaxJobs}}
    \cup {[is_list |-> FALSE, entries |-> <<>>]}

\* return {...}
Return(h, ok, results, error, cached) ==
    [h EXCEPT !.pc = "returned", !.ok = ok, !.results = results,
              !.error = error, !.cached = cached]

\* j.get("document_id", "?")[:8] for every entry: subscripting None and
\* calling get on something that is not a dict raise
LogRaises(jobs) ==
    \E i \in 1..Len(jobs.entries) : jobs.entries[i] \in {"null", "notdict"}

\* Lines 61-78: the input is read, the jobs list validated and logged
HandlerReceive ==
    /\ hd.pc = "idle"
    /\ \E name \in Queues, jobs \in JobLists :
         LET h == [hd EXCEPT !.queue = name, !.jobs = jobs]
         IN  IF name = "check_video_cache"
             THEN hd' = [h EXCEPT !.pc = "settings"]
             ELSE IF ~jobs.is_list \/ jobs.entries = <<>>
             THEN hd' = Return(h, FALSE, FALSE, TRUE, FALSE)
             ELSE IF LogRaises(jobs)
             THEN hd' = [h EXCEPT !.pc = "raised"]
             ELSE hd' = [h EXCEPT !.pc = "settings"]
    /\ UNCHANGED notHandler

\* Lines 83-93: get_settings() returns or raises
HandlerSettings ==
    /\ hd.pc = "settings"
    /\ \/ hd' = [hd EXCEPT !.pc = "route"]
       \/ hd' = Return(hd, FALSE, FALSE, TRUE, FALSE)
    /\ UNCHANGED notHandler

\* Lines 104-197: the call is routed by queue name; whatever the routed call
\* raises is caught and returned as an error
HandlerRoute ==
    /\ hd.pc = "route"
    /\ CASE hd.queue = "check_video_cache" ->
              \/ hd' = Return(hd, FALSE, FALSE, TRUE, FALSE)   \* no video_url
              \/ hd' = Return(hd, TRUE, FALSE, FALSE, TRUE)    \* cache_result
              \/ hd' = Return(hd, FALSE, FALSE, TRUE, TRUE)    \* check raised
         [] hd.queue \in {"video_audio_transcription", "screenshot_extraction"} ->
              \/ hd' = Return(hd, TRUE, TRUE, FALSE, FALSE)    \* batch result
              \/ hd' = Return(hd, FALSE, TRUE, TRUE, FALSE)    \* batch raised
         [] OTHER -> hd' = Return(hd, FALSE, FALSE, TRUE, FALSE)
    /\ UNCHANGED notHandler

NextHandler ==
    \/ HandlerReceive
    \/ HandlerSettings
    \/ HandlerRoute

SpecHandler == Init /\ [][NextHandler]_vars

\* ----------------------------------------------------------------- C25
\* C25: handler(job) never raises; for every input (entries with a null or
\* missing document_id, malformed entries, an unknown queue, a failing batch
\* processor) it returns a dict carrying ok and either results (for a cache
\* check: the cache fields) or an error.
C25_HandlerNeverRaises ==
    /\ hd.pc # "raised"
    /\ hd.pc = "returned" => (hd.results \/ hd.cached \/ hd.error)

\* =========================================================================
\* format_seconds_to_srt and convert_srt_timestamp_to_seconds on IEEE 754
\* doubles.  A timestamp of millisecond resolution is n/1000 for a natural
\* n; the double that holds it is the nearest multiple of 2^(exp - 52), and
\* its distance from n/1000 is kept exactly, as a whole number of
\* 1/(1000 * 2^(52 - exp)).
\* =========================================================================
MantissaBits == 52

WholeSeconds == {0, 1, 4, 59, 60, 83, 3599, 3600, 5445}

Millis == 0..999

RECURSIVE Pow2(_)
Pow2(n) == IF n = 0 THEN 1 ELSE 2 * Pow2(n - 1)

\* 2^n modulo q
RECURSIVE PowMod(_, _)
PowMod(n, q) == IF n = 0 THEN 1 % q ELSE (2 * PowMod(n - 1, q)) % q

RECURSIVE FloorLog2(_)
FloorLog2(n) == IF n < 2 THEN 0 ELSE 1 + FloorLog2(n \div 2)

RECURSIVE ExponentUp(_, _)
ExponentUp(n, a) == IF 1000 * Pow2(a + 1) <= n THEN ExponentUp(n, a + 1) ELSE a

RECURSIVE ExponentDown(_, _)
ExponentDown(n, j) == IF n * Pow2(j) >= 1000 THEN 0 - j ELSE ExponentDown(n, j + 1)

\* The binary exponent of n/1000, n >= 1: 2^exp <= n/1000 < 2^(exp + 1)
Exponent(n) == IF n >= 1000 THEN ExponentUp(n, 0) ELSE ExponentDown(n, 1)

\* Round to nearest of n/1000: n * 2^(52 - exp) / 1000 leaves the remainder
\* r; the double lies r below n/1000 if r < 500 and 1000 - r above otherwise
\* (r = 500 does not occur: the product is divisible by 8)
Err(n) ==
    IF n = 0 THEN 0
    ELSE LET r == ((n % 1000) * PowMod(MantissaBits - Exponent(n), 1000)) % 1000
         IN  IF r < 500 THEN 0 - r ELSE 1000 - r

\* The float that a literal or a parsed decimal of n thousandths becomes
Double(n) == [ms |-> n, err |-> Err(n), exp |-> IF n = 0 THEN 0 ELSE Exponent(n)]

\* int((seconds % 1) * 1000): the remainder is exact, the product is rounded
\* to the nearest double and int() truncates.  A double at or above n/1000
\* gives m; one that lies below gives m only if the product rounds up to m,
\* that is if the distance is at most half a unit of the product
TruncatedMillis(x) ==
    LET m == x.ms % 1000
        b == IF m = 1 THEN 0 - 1 ELSE FloorLog2(m - 1)
        k == b - x.exp - 1
    IN  IF x.err >= 0 THEN m
        ELSE IF k >= 0 /\ 0 - x.err <= Pow2(k) THEN m
        ELSE m - 1

DigitChars == <<"0", "1", "2", "3", "4", "5", "6", "7", "8", "9">>

RECURSIVE Decimal(_)
Decimal(n) ==
    IF n < 10 THEN <<DigitChars[n + 1]>>
    ELSE Decimal(n \div 10) \o <<DigitChars[(n % 10) + 1]>>

\* the format specifications 02d and 03d
RECURSIVE ZeroPad(_, _)
ZeroPad(digits, width) ==
    IF Len(digits) >= width THEN digits ELSE ZeroPad(<<"0">> \o digits, width)

\* format_seconds_to_srt(seconds): HH:MM:SS,mmm as a sequence of characters
FormatSecondsToSrt(x) ==
    LET whole == x.ms \div 1000
        hours == whole \div 3600
        minutes == (whole % 3600) \div 60
        secs == whole % 60
        millis == TruncatedMillis(x)
    IN  ZeroPad(Decimal(hours), 2) \o <<":">> \o ZeroPad(Decimal(minutes), 2)
          \o <<":">> \o ZeroPad(Decimal(secs), 2) \o <<",">>
          \o ZeroPad(Decimal(millis), 3)

\* timestamp.replace(a, b)
Replace(t, a, b) == [i \in 1..Len(t) |-> IF t[i] = a THEN b ELSE t[i]]

\* timestamp.split(sep)
RECURSIVE Split(_, _)
Split(t, sep) ==
    IF \A i \in 1..Len(t) : t[i] # sep THEN <<t>>
    ELSE LET i == CHOOSE j \in 1..Len(t) :
                    t[j] = sep /\ \A h \in 1..(j - 1) : t[h] # sep
         IN  <<SubSeq(t, 1, i - 1)>> \o Split(SubSeq(t, i + 1, Len(t)), sep)

\* int(digits)
RECURSIVE ToInt(_)
ToInt(digits) ==
    IF digits = <<>> THEN 0
    ELSE 10 * ToInt(SubSeq(digits, 1, Len(digits) - 1))
           + (CHOOSE d \in 0..9 : DigitChars[d + 1] = digits[Len(digits)])

\* float(text) of a decimal with up to three places
ToFloat(text) ==
    LET parts == Split(text, ".")
        places == IF Len(parts) > 1 THEN parts[2] ELSE <<>>
        thousandths == ToInt(places) * (CASE Len(places) = 0 -> 0
                                          [] Len(places) = 1 -> 100
                                          [] Len(places) = 2 -> 10
                                          [] OTHER -> 1)
    IN  Double(ToInt(parts[1]) * 1000 + thousandths)

\* whole + y for an int whole and a float y: the exact sum is rounded to the
\* precision of its own exponent, to even on a tie.  With k the difference
\* of the exponents of the sum and of y, w the bits of y below twice the
\* unit of the sum; for k > 6 the sum is the double nearest to the total
IntPlusDouble(whole, y) ==
    LET total == whole * 1000 + y.ms
        a == Exponent(total)
        k == a - y.exp
        beta == ((y.ms % 125) * PowMod(MantissaBits - 4 - a, 125)) % 125
        w == (Pow2(k + 2) * beta + 125) \div 250
        hi == IF k = 0 THEN w ELSE w \div Pow2(k)
        low == IF k = 0 THEN 0 ELSE w % Pow2(k)
        up == IF k > 0 /\ (2 * low > Pow2(k) \/ (2 * low = Pow2(k) /\ hi % 2 = 1))
              THEN 1 ELSE 0
    IN  IF y.ms = 0 THEN Double(total)
        ELSE IF whole = 0 THEN y
        ELSE IF k > 6 THEN Double(total)
        ELSE [ms |-> total, err |-> 1000 * (hi + up) - 16 * beta, exp |-> a]

\* convert_srt_timestamp_to_seconds(timestamp)
ConvertSrtTimestampToSeconds(timestamp) ==
    LET dotted == Replace(timestamp, ",", ".")
        parts == Split(dotted, ":")
    IN  IF Len(parts) = 3
        THEN IntPlusDouble(ToInt(parts[1]) * 3600 + ToInt(parts[2]) * 60,
                           ToFloat(parts[3]))
        ELSE ToFloat(dotted)

\* |x - y| <= 0.001 for two floats less than two milliseconds apart: the
\* errors are compared in the finer of the two units
Within001(x, y) ==
    LET e == IF x.exp < y.exp THEN x.exp ELSE y.exp
        d == x.err * Pow2(x.exp - e) - y.err * Pow2(y.exp - e)
    IN  \/ x.ms = y.ms
        \/ x.ms - y.ms = 1 /\ d <= 0
        \/ y.ms - x.ms = 1 /\ d >= 0

\* srt = format_seconds_to_srt(original)
StampFormat ==
    /\ ts.pc = "idle"
    /\ \E whole \in WholeSeconds, m \in Millis :
         LET original == Double(whole * 1000 + m)
         IN  ts' = [ts EXCEPT !.pc = "formatted", !.seconds = original,
                              !.text = FormatSecondsToSrt(original)]
    /\ UNCHANGED notStamp

\* converted = convert_srt_timestamp_to_seconds(srt)
StampParse ==
    /\ ts.pc = "formatted"
    /\ ts' = [ts EXCEPT !.pc = "parsed",
                        !.back = ConvertSrtTimestampToSeconds(ts.text)]
    /\ UNCHANGED notStamp

NextStamp ==
    \/ StampFormat
    \/ StampParse

SpecStamp == Init /\ [][NextStamp]_vars

\* ----------------------------------------------------------------- C26
\* C26: for every non-negative timestamp of millisecond resolution, the value
\* parsed back from its formatted text is within 0.001 s of the original.
C26_RoundTripWithin001 ==
    ts.pc = "parsed" => Within001(ts.seconds, ts.back)

\* =========================================================================
\* process_single_job: status writes, queue calls and the retry budget
\* =========================================================================
\* ----------------------------------------------------------------- C27
\* C27: a job writes the status or processingError of a WorkItem only if its
\* own claim succeeded; a job whose claim call raised leaves the WorkItem
\* exactly as it was.
C27_WritesOnlyAfterOwnClaim ==
    [][\A w \in Workers :
         (wk[w].pc \notin {"idle", "start"} /\ ~wk[w].claimed /\ wk'[w] # wk[w])
         => doc' = doc]_vars

\* ----------------------------------------------------------------- C28
\* C28: whenever a job returns retry leaving the WorkItem pending, the
\* message of that WorkItem is still in the queue, deleted or archived by no
\* execution, also when the message was delivered a second time while the
\* first execution was processing.
C28_RetryKeepsMessage ==
    [][\A w \in Workers :
         (Returned(w) /\ LastResult(w).status = "retry"
            /\ doc'[LastResult(w).document_id].status = "pending")
         => queue'[LastResult(w).msg_id].state = "queued"]_vars

\* ----------------------------------------------------------------- C29
\* C29: the status of a result determines the queue calls the job issued:
\* completed or deleted means one delete call and no archive call, archived
\* one archive call and no delete call, retry no call; no execution issues
\* more than one queue call.
C29_StatusDeterminesQueueCalls ==
    \A w \in Workers :
        /\ Len(wk[w].acks) <= 1
        /\ \A i \in 1..Len(wk[w].results) :
             LET res == wk[w].results[i]
             IN  /\ res.status \in {"completed", "deleted"} => res.acks = <<"delete">>
                 /\ res.status = "archived" => res.acks = <<"archive">>
                 /\ res.status = "retry" => res.acks = <<>>
                 /\ res.status \in {"completed", "deleted", "archived", "retry"}

\* One batch returned a deleted and an archived result, another a retry
C29_Witness ==
    \E w, v \in Workers :
        /\ \E i, j \in 1..Len(wk[w].results) :
             /\ wk[w].results[i].status = "deleted"
             /\ wk[w].results[j].status = "archived"
        /\ \E i \in 1..Len(wk[v].results) : wk[v].results[i].status = "retry"

\* ----------------------------------------------------------------- C30
\* C30: the input errors of Steps 2 and 3 (WorkItem not found after the
\* claim, no media URL, invalid media format) are handled like any failure:
\* the job returns retry while read_ct < max_retries and is archived only
\* when read_ct >= max_retries; only a missing identifier is archived on a
\* first delivery.
InputErrorSteps == {PipelineSteps[1], PipelineSteps[2]}

C30_InputErrorsUseRetryBudget ==
    [][\A w \in Workers :
         /\ (wk[w].pc = "fail" /\ wk[w].step \in InputErrorSteps /\ wk'[w] # wk[w]) =>
               IF wk[w].read_ct < MaxRetries
               THEN /\ Returned(w)
                    /\ LastResult(w).status = "retry"
                    /\ queue' = queue
               ELSE /\ wk'[w].pc = "ackArchive"
                    /\ queue' = queue
         /\ (wk'[w].step \in InputErrorSteps /\ wk'[w].pc = "ackArchive"
               /\ wk[w].pc # "ackArchive") =>
               wk[w].pc = "fail" /\ wk[w].read_ct >= MaxRetries
         /\ (Returned(w) /\ LastResult(w).status = "archived"
               /\ LastResult(w).read_ct < MaxRetries) =>
               LastResult(w).reason = "missing document_id"]_vars

\* A job that failed on an input error with its retries used up is about to
\* archive its message, whose earlier delivery was left in the queue
C30_Witness ==
    \E w \in Workers :
        /\ wk[w].pc = "ackArchive"
        /\ wk[w].step \in InputErrorSteps
        /\ wk[w].read_ct >= MaxRetries
        /\ queue[wk[w].msg_id].state = "queued"

\* =========================================================================
\* process_job_batch: the summary
\* =========================================================================
\* ----------------------------------------------------------------- C31
\* C31: in every batch summary total is the number of jobs of the batch, each
\* of completed, retry, archived and deleted is the number of results with
\* that status, and the four counts add up to total.
C31_SummaryCounts ==
    \A w \in Workers :
        wk[w].batch = "returned" =>
            LET out == wk[w].out
                res == wk[w].results
                With(s) == {i \in 1..Len(res) : res[i].status = s}
            IN  /\ out.ok
                /\ out.total = Len(wk[w].payload)
                /\ out.completed = Cardinality(With("completed"))
                /\ out.retry = Cardinality(With("retry"))
                /\ out.archived = Cardinality(With("archived"))
                /\ out.deleted = Cardinality(With("deleted"))
                /\ out.completed + out.retry + out.archived + out.deleted = out.total

\* A batch of two jobs returned a summary with two different counts at one
C31_Witness ==
    \E w \in Workers :
        /\ wk[w].batch = "returned"
        /\ wk[w].out.total = 2
        /\ wk[w].out.archived = 1
        /\ wk[w].out.retry = 1

\* =========================================================================
\* The error text of the failure path of process_single_job
\* =========================================================================
ErrorLimit == 500

ErrorKeep == 480

Piece(lit, len) == [lit |-> lit, len |-> len]

\* The values current_step can have when an exception reaches the except
\* block, with their lengths; the audio step carries the first 60 characters
\* of the URL, the transcription step the provider and the model size
StepLen ==
    [s \in {"claiming document", "fetching document details",
            "validating document data", "extracting platform subtitles",
            "extracting audio from <url>", "transcribing audio with local/medium",
            "saving transcription to database", "marking document as completed"} |->
       CASE s = "claiming document" -> 17
         [] s = "fetching document details" -> 25
         [] s = "validating document data" -> 24
         [] s = "extracting platform subtitles" -> 29
         [] s = "extracting audio from <url>" -> 22 + 60
         [] s = "transcribing audio with local/medium" -> 24 + 12
         [] s = "saving transcription to database" -> 32
         [] s = "marking document as completed" -> 29]

FailingSteps == DOMAIN StepLen

\* The lengths of str(e) ranged over
BaseLengths == {0, 1, 20, 100, 380, 400, 420, 440, 460, 470, 480, 500, 2000}

\* len(text)
RECURSIVE TextLen(_)
TextLen(t) == IF t = <<>> THEN 0 ELSE Head(t).len + TextLen(Tail(t))

\* text[:n]
RECURSIVE Take(_, _)
Take(t, n) ==
    IF t = <<>> \/ n <= 0 THEN <<>>
    ELSE IF Head(t).len <= n THEN <<Head(t)>> \o Take(Tail(t), n - Head(t).len)
    ELSE <<Piece(Head(t).lit, n)>>

\* f"[Step: {current_step}] {base_error}"
StepText(step, base_len) ==
    <<Piece("[Step: ", 7), Piece(step, StepLen[step]), Piece("] ", 2),
      Piece("base_error", base_len)>>

\* if len(error_msg) > 500: error_msg = error_msg[:480] + "... (truncated)"
Truncate(t) ==
    IF TextLen(t) > ErrorLimit
    THEN Take(t, ErrorKeep) \o <<Piece("... (truncated)", 15)>>
    ELSE t

\* str(n)
Number(name, n) == Piece(name, Len(Decimal(n)))

\* f"Failed after {read_ct} attempts. Last error: {error_msg}"
FinalText(read_ct, error_msg) ==
    <<Piece("Failed after ", 13), Number("read_ct", read_ct),
      Piece(" attempts. Last error: ", 23)>> \o error_msg

\* f"Retry {read_ct}/{max_retries}: {error_msg}"
RetryText(read_ct, error_msg) ==
    <<Piece("Retry ", 6), Number("read_ct", read_ct), Piece("/", 1),
      Number("max_retries", MaxRetries), Piece(": ", 2)>> \o error_msg

\* except Exception as e: error_msg is built and truncated
TextBuild ==
    /\ em.pc = "idle"
    /\ \E step \in FailingSteps, base_len \in BaseLengths, read_ct \in 1..ReadCap :
         em' = [em EXCEPT !.pc = "built", !.step = step, !.read_ct = read_ct,
                          !.error_msg = Truncate(StepText(step, base_len))]
    /\ UNCHANGED notText

\* the update of processing_error by the final-error or the retry path
TextWrite ==
    /\ em.pc = "built"
    /\ em' = [em EXCEPT !.pc = "written",
                !.path = IF RetriesExhausted(em.read_ct) THEN "final" ELSE "retry",
                !.written = IF RetriesExhausted(em.read_ct)
                            THEN FinalText(em.read_ct, em.error_msg)
                            ELSE RetryText(em.read_ct, em.error_msg)]
    /\ UNCHANGED notText

NextText ==
    \/ TextBuild
    \/ TextWrite

SpecText == Init /\ [][NextText]_vars

\* ----------------------------------------------------------------- C32
\* C32: every error text written to processingError by the retry or the
\* final-error path is at most 500 characters long, carries the pipeline step
\* of the failure in front of the error detail, and in the retry case embeds
\* the attempt number.
C32_ErrorTextBounded ==
    em.pc = "written" =>
        /\ TextLen(em.written) <= ErrorLimit
        /\ \E i \in 1..(Len(em.written) - 1) :
             /\ em.written[i] = Piece("[Step: ", 7)
             /\ em.written[i + 1] = Piece(em.step, StepLen[em.step])
             /\ \A j \in 1..i : em.written[j].lit # "base_error"
        /\ em.path = "retry" =>
             \E i \in 1..Len(em.written) : em.written[i].lit = "read_ct"

\* =========================================================================
\* The subtitle path: the fetch of the track content
\* =========================================================================
\* ----------------------------------------------------------------- C33
\* C33: in the subtitle path a track fetch that fails, by a network exception
\* or by an HTTP error status of the response, is attempted again until three
\* attempts have been made; only after the third failure does the subtitle
\* path give up.
C33_FetchGivesUpAfterThree ==
    acq.fell = "fetch" => acq.attempts = MaxAttempts

\* =========================================================================
\* One batch on its way through the rate limiter and the gate, among other
\* callers of both (requests to the HTTP endpoints).  Each job of the batch
\* calls youtube_rate_limit before the subtitle extraction and again before
\* the audio extraction, and transcribes under the gate.
\* =========================================================================
\* process_job_batch(payload) with n jobs; the first job starts
BatchStart(n) ==
    /\ bt.pc = "idle"
    /\ bt' = [bt EXCEPT !.pc = "subtitles", !.left = n]
    /\ UNCHANGED notBatch

\* Step 4 is skipped: an audio document, skip_subtitles, or a failure before
BatchSkipSubtitles ==
    /\ bt.pc = "subtitles"
    /\ bt' = [bt EXCEPT !.pc = "audio"]
    /\ UNCHANGED notBatch

\* async with _youtube_request_lock, entered when the mutex is free
BatchLimitEnter ==
    /\ bt.pc \in {"subtitles", "audio"}
    /\ bt.lock = "free"
    /\ bt' = [bt EXCEPT !.lock = "batch",
                        !.pc = IF bt.pc = "subtitles" THEN "limited1" ELSE "limited2"]
    /\ UNCHANGED notBatch

\* the end of the locked block, after the sleep if there was one; the
\* extraction that follows gives a result, or fails
BatchLimitLeave ==
    /\ bt.pc \in {"limited1", "limited2"}
    /\ \E okcall \in BOOLEAN :
         bt' = [bt EXCEPT !.lock = "free",
                  !.pc = IF bt.pc = "limited1"
                         THEN (IF okcall THEN "done" ELSE "audio")
                         ELSE (IF okcall THEN "gate" ELSE "done")]
    /\ UNCHANGED notBatch

\* async with transcription_semaphore: no permit is free, the job waits
BatchGateWait ==
    /\ bt.pc = "gate"
    /\ bt.sem = 0
    /\ bt' = [bt EXCEPT !.pc = "waiting", !.waited = TRUE]
    /\ UNCHANGED notBatch

\* the job takes a permit
BatchGateEnter ==
    /\ bt.pc \in {"gate", "waiting"}
    /\ bt.sem > 0
    /\ bt' = [bt EXCEPT !.pc = "transcribing", !.sem = @ - 1, !.held = @ + 1]
    /\ UNCHANGED notBatch

\* an exit of the block that keeps the permit
BatchGateLeaveKeeps ==
    /\ bt.pc = "transcribing"
    /\ bt' = [bt EXCEPT !.pc = "done"]
    /\ UNCHANGED notBatch

\* _transcribe_audio_internal returns or raises: the permit is given back
BatchGateLeave ==
    /\ bt.pc = "transcribing"
    /\ bt' = [bt EXCEPT !.pc = "done", !.sem = @ + 1, !.held = @ - 1]
    /\ UNCHANGED notBatch

\* process_single_job returns; the loop goes on to the next job or ends
BatchNextJob ==
    /\ bt.pc = "done"
    /\ bt' = [bt EXCEPT !.left = @ - 1,
                        !.pc = IF bt.left = 1 THEN "returned" ELSE "subtitles"]
    /\ UNCHANGED notBatch

\* Another caller takes a permit of the gate, or gives its permit back
OtherGateEnter ==
    /\ bt.sem > 0
    /\ bt' = [bt EXCEPT !.sem = @ - 1]
    /\ UNCHANGED notBatch

OtherGateLeave ==
    /\ bt.sem + bt.held < MaxConcurrent
    /\ bt' = [bt EXCEPT !.sem = @ + 1]
    /\ UNCHANGED notBatch

\* Another caller passes through youtube_rate_limit
OtherLimitEnter ==
    /\ bt.lock = "free"
    /\ bt' = [bt EXCEPT !.lock = "other"]
    /\ UNCHANGED notBatch

OtherLimitLeave ==
    /\ bt.lock = "other"
    /\ bt' = [bt EXCEPT !.lock = "free"]
    /\ UNCHANGED notBatch

NextBatch ==
    \/ \E n \in 1..MaxBatch : BatchStart(n)
    \/ BatchSkipSubtitles
    \/ BatchLimitEnter
    \/ BatchLimitLeave
    \/ BatchGateWait
    \/ BatchGateEnter
    \/ BatchGateLeave
    \/ BatchNextJob
    \/ OtherGateEnter
    \/ OtherGateLeave
    \/ OtherLimitEnter
    \/ OtherLimitLeave

SpecBatch == Init /\ [][NextBatch]_vars

\* Every external call returns or raises, so the batch and the other callers
\* take their next step; asyncio hands a released permit or mutex to the
\* caller that waits longest, so a waiting batch is not passed over for ever
FairnessBatch ==
    /\ WF_vars(\E n \in 1..MaxBatch : BatchStart(n))
    /\ WF_vars(BatchLimitLeave)
    /\ WF_vars(BatchGateLeave)
    /\ WF_vars(BatchNextJob)
    /\ WF_vars(OtherGateLeave)
    /\ WF_vars(OtherLimitLeave)
    /\ SF_vars(BatchLimitEnter)
    /\ SF_vars(BatchGateEnter)

SpecBatchLive == SpecBatch /\ FairnessBatch

\* ----------------------------------------------------------------- C34
\* C34: process_job_batch terminates for every finite batch when every
\* external call returns or raises and the gate has at least one permit: the
\* batch holds at most one permit at any time, never waits for a permit
\* while it holds one, and never waits for the rate limiter's mutex while it
\* holds it.
C34_BatchTerminates ==
    /\ [](/\ bt.held <= 1
          /\ bt.pc \in {"gate", "waiting"} => bt.held = 0
          /\ bt.pc \in {"subtitles", "audio"} => bt.lock # "batch"
          /\ bt.pc \in {"done", "returned"} => bt.held = 0 /\ bt.lock # "batch")
    /\ <>(bt.pc = "returned")

\* A batch of two jobs returned after it had waited for a permit
C34_Witness ==
    /\ bt.pc = "returned"
    /\ bt.waited
    /\ bt.left = 0

\* =========================================================================
\* run_ytdlp_binary: one call, its invocations of the binary and the cookie
\* refresh between them.
\* =========================================================================
\* Output of the binary: two texts that match an entry of
\* auth_failure_patterns, one that matches none, and no output
AuthTexts == {"Sign in to confirm you're not a bot", "HTTP Error 403: Forbidden"}

OutputTexts == AuthTexts \cup {"", "ERROR: unable to download webpage"}

ReturnCodes == {0, 1, 2}

\* any(re.search(pattern, stderr) or re.search(pattern, stdout) ...)
IsAuthFailure(stdout, stderr) == stderr \in AuthTexts \/ stdout \in AuthTexts

\* What subprocess.run does: it exits, runs into the timeout, or fails to start
Completions ==
    [kind : {"exit"}, stdout : OutputTexts, stderr : OutputTexts, returncode : ReturnCodes]
    \cup {[kind |-> "timeout", stdout |-> "", stderr |-> "Command timed out", returncode |-> 1],
          [kind |-> "exception", stdout |-> "", stderr |-> "error", returncode |-> 1]}

Output(c) == [stdout |-> c.stdout, stderr |-> c.stderr, returncode |-> c.returncode]

\* run_ytdlp_binary(args, timeout, retry_on_auth_failure) is called
BinaryCall(retry) ==
    /\ yb.pc = "idle"
    /\ yb' = [yb EXCEPT !.pc = "run", !.arg = retry, !.retry_on_auth_failure = retry]
    /\ UNCHANGED notBinary

\* subprocess.run(cmd, ...) and the test of its output
BinaryRun(c) ==
    /\ yb.pc = "run"
    /\ LET again == /\ c.kind = "exit"
                    /\ IsAuthFailure(c.stdout, c.stderr)
                    /\ yb.retry_on_auth_failure
                    /\ c.returncode # 0
       IN  yb' = [yb EXCEPT !.runs = Append(@, c),
                            !.out = Output(c),
                            !.pc = IF again THEN "refresh" ELSE "returned"]
    /\ UNCHANGED notBinary

\* A refresh after which the retry stays enabled in the second call
BinaryRefreshKeepsRetry(outcome) ==
    /\ yb.pc = "refresh"
    /\ yb' = [yb EXCEPT !.refreshes = @ + 1, !.refresh = outcome, !.pc = "run"]
    /\ UNCHANGED notBinary

\* trigger_manual_refresh(): on success the function calls itself with
\* retry_on_auth_failure=False, on failure it sends the alert and returns the
\* first result, and an exception of the refresh is returned as an error
BinaryRefresh(outcome) ==
    /\ yb.pc = "refresh"
    /\ yb' = [yb EXCEPT
                !.refreshes = @ + 1,
                !.refresh = outcome,
                !.retry_on_auth_failure = IF outcome = "success" THEN FALSE ELSE @,
                !.alerts = IF outcome = "failed" THEN @ + 1 ELSE @,
                !.out = IF outcome = "raised"
                        THEN [stdout |-> "", stderr |-> "error", returncode |-> 1]
                        ELSE @,
                !.pc = IF outcome = "success" THEN "run" ELSE "returned"]
    /\ UNCHANGED notBinary

RefreshOutcomes == {"success", "failed", "raised"}

NextBinary ==
    \/ \E retry \in BOOLEAN : BinaryCall(retry)
    \/ \E c \in Completions : BinaryRun(c)
    \/ \E outcome \in RefreshOutcomes : BinaryRefresh(outcome)

SpecBinary == Init /\ [][NextBinary]_vars

\* ----------------------------------------------------------------- C35
\* C35: one call of run_ytdlp_binary invokes the binary at most twice and
\* refreshes the cookies at most once; there is a second invocation only
\* when the first exited non-zero with a detected authentication failure,
\* the retry was enabled and the refresh succeeded, and the second
\* invocation is followed by no refresh and no further invocation.
C35_AtMostTwoRuns ==
    /\ Len(yb.runs) <= 2
    /\ yb.refreshes <= 1
    /\ Len(yb.runs) = 2 =>
         /\ yb.runs[1].kind = "exit"
         /\ yb.runs[1].returncode # 0
         /\ IsAuthFailure(yb.runs[1].stdout, yb.runs[1].stderr)
         /\ yb.arg
         /\ yb.refresh = "success"
         /\ yb.refreshes = 1
         /\ yb.pc = "returned"
         /\ yb.out = Output(yb.runs[2])
    /\ yb.pc = "refresh" => Len(yb.runs) = 1 /\ yb.refreshes = 0

\* A call that ran the binary twice, the second run failing on
\* authentication again
C35_Witness ==
    /\ yb.pc = "returned"
    /\ Len(yb.runs) = 2
    /\ yb.runs[2].returncode # 0
    /\ IsAuthFailure(yb.runs[2].stdout, yb.runs[2].stderr)

\* =========================================================================
\* send_alert for one alert type, called by the processes that share the
\* system_alerts table (API server, polling worker, serverless handler).
\* =========================================================================
\* Time passes
AlertTick ==
    /\ al.now < MaxTime
    /\ al' = [al EXCEPT !.now = @ + 1]
    /\ UNCHANGED notAlert

\* select ... eq(alert_type).gte(created_at, cutoff_time).limit(1)
RecentAlerts(alerts, now) ==
    {i \in DOMAIN alerts : alerts[i] >= now - Cooldown}

\* send_alert up to the test of recent_alerts.data: without a client and on
\* an exception of the select it returns None, as it does when a row of the
\* type is recent; otherwise it goes on to insert
AlertCheck(p, outcome) ==
    /\ al.caller[p].pc = "idle"
    /\ LET skip == outcome # "ok" \/ RecentAlerts(al.alerts, al.now) # {}
       IN  al' = [al EXCEPT !.caller[p] =
                    IF skip THEN [pc |-> "returned", ret |-> "None"]
                    ELSE [pc |-> "insert", ret |-> "none"]]
    /\ UNCHANGED notAlert

\* insert(alert_data).execute(): the row is created now, or the insert fails
AlertInsert(p, outcome) ==
    /\ al.caller[p].pc = "insert"
    /\ Len(al.alerts) < MaxAlerts
    /\ al' = [al EXCEPT
                !.alerts = IF outcome = "ok" THEN Append(@, al.now) ELSE @,
                !.caller[p] = [pc |-> "returned",
                               ret |-> IF outcome = "ok" THEN "alert" ELSE "None"]]
    /\ UNCHANGED notAlert

\* The caller goes on and may call send_alert again
AlertReturn(p) ==
    /\ al.caller[p].pc = "returned"
    /\ al' = [al EXCEPT !.caller[p] = [pc |-> "idle", ret |-> "none"]]
    /\ UNCHANGED notAlert

NextAlert ==
    \/ AlertTick
    \/ \E p \in AlertCallers, outcome \in {"ok", "error", "no client"} : AlertCheck(p, outcome)
    \/ \E p \in AlertCallers, outcome \in {"ok", "error"} : AlertInsert(p, outcome)
    \/ \E p \in AlertCallers : AlertReturn(p)

SpecAlert == Init /\ [][NextAlert]_vars

\* ----------------------------------------------------------------- C36
\* C36: for one alert type, whatever the sequence or interleaving of
\* send_alert calls, no two inserted alerts are closer together than the
\* cooldown.
C36_AlertsSpaced ==
    \A i, j \in DOMAIN al.alerts :
        i < j => al.alerts[j] - al.alerts[i] >= Cooldown

\* =========================================================================
\* process_screenshot_job: one job and its loop over the timestamps.
\* =========================================================================
TimestampLimit == 100

\* Lengths of the timestamps list: none, a few, and one more than the limit
Requests == (0..MaxShots) \cup {TimestampLimit + 1}

\* What happens at one timestamp: everything works, the timestamp does not
\* parse, FFmpeg fails, the upload fails, or only the metadata save fails
ShotOutcomes == {"ok", "bad timestamp", "ffmpeg failed", "upload failed", "save failed"}

ShotError == [status |-> "error", total_extracted |-> 0, failed_timestamps |-> <<>>]

\* process_screenshot_job(job, worker) up to the try: the validation
ShotCall(has_url, n) ==
    /\ ss.pc = "idle"
    /\ ss' = IF ~has_url \/ n = 0 \/ n > TimestampLimit
             THEN [ss EXCEPT !.pc = "returned", !.requested = n, !.out = ShotError]
             ELSE [ss EXCEPT !.pc = "prepare", !.requested = n]
    /\ UNCHANGED notShot

\* Steps 1 and 2: metadata and download; an exception ends the job in error
ShotPrepare(okcall) ==
    /\ ss.pc = "prepare"
    /\ ss' = IF okcall
             THEN [ss EXCEPT !.pc = "loop"]
             ELSE [ss EXCEPT !.pc = "returned", !.out = ShotError]
    /\ UNCHANGED notShot

\* A loop that a failure ends
ShotExtractStops(outcome) ==
    /\ ss.pc = "loop"
    /\ ss.i < ss.requested
    /\ ss' = IF outcome \in {"ok", "save failed"}
             THEN [ss EXCEPT !.i = @ + 1, !.log = Append(@, outcome),
                             !.extracted_count = @ + 1]
             ELSE [ss EXCEPT !.i = ss.requested, !.log = Append(@, outcome),
                             !.failed_timestamps = Append(@, <<ss.i + 1, outcome>>)]
    /\ UNCHANGED notShot

\* for ts in timestamps: one pass of the body.  The except of the metadata
\* save swallows its failure, so the count still goes up; any other
\* exception adds the timestamp to failed_timestamps
ShotExtract(outcome) ==
    /\ ss.pc = "loop"
    /\ ss.i < ss.requested
    /\ ss' = IF outcome \in {"ok", "save failed"}
             THEN [ss EXCEPT !.i = @ + 1, !.log = Append(@, outcome),
                             !.extracted_count = @ + 1]
             ELSE [ss EXCEPT !.i = @ + 1, !.log = Append(@, outcome),
                             !.failed_timestamps = Append(@, <<ss.i + 1, outcome>>)]
    /\ UNCHANGED notShot

\* The loop is over: the job returns completed
ShotReturn ==
    /\ ss.pc = "loop"
    /\ ss.i = ss.requested
    /\ ss' = [ss EXCEPT !.pc = "returned",
                        !.out = [status |-> "completed",
                                 total_extracted |-> ss.extracted_count,
                                 failed_timestamps |-> ss.failed_timestamps]]
    /\ UNCHANGED notShot

NextShot ==
    \/ \E has_url \in BOOLEAN, n \in Requests : ShotCall(has_url, n)
    \/ \E okcall \in BOOLEAN : ShotPrepare(okcall)
    \/ \E outcome \in ShotOutcomes : ShotExtract(outcome)
    \/ ShotReturn

SpecShot == Init /\ [][NextShot]_vars

\* ----------------------------------------------------------------- C37
\* C37: for every screenshot job that returns completed, total_extracted
\* plus the number of failed_timestamps equals the number of requested
\* timestamps; every timestamp was attempted whatever happened at the ones
\* before it, and a timestamp whose metadata save failed after the upload
\* counts as extracted.
C37_ExtractedPlusFailed ==
    (ss.pc = "returned" /\ ss.out.status = "completed") =>
        /\ ss.out.total_extracted + Len(ss.out.failed_timestamps) = ss.requested
        /\ Len(ss.log) = ss.requested
        /\ ss.out.total_extracted =
             Cardinality({k \in DOMAIN ss.log : ss.log[k] \in {"ok", "save failed"}})
        /\ \A k \in DOMAIN ss.out.failed_timestamps :
             ss.log[ss.out.failed_timestamps[k][1]] \notin {"ok", "save failed"}

\* A completed job of three timestamps: the first failed, the second lost
\* only its metadata save, the third worked
C37_Witness ==
    /\ ss.pc = "returned"
    /\ ss.out.status = "completed"
    /\ ss.log = <<"ffmpeg failed", "save failed", "ok">>
    /\ ss.out.total_extracted = 2

\* =========================================================================
\* The polling worker: start_worker, stop_worker and _worker_loop.  The two
\* public functions are called from the startup and shutdown events of the
\* application, one call at a time.  Time is counted in ticks.
\* =========================================================================
\* config['idle_backoff'], shortened
IdleBackoff == <<1, 2>>

Min(a, b) == IF a < b THEN a ELSE b

\* idle_backoff[min(idle_index, len(idle_backoff) - 1)], for the index before
\* its increment
SleepTime(idle_index) == IdleBackoff[Min(idle_index, Len(IdleBackoff) - 1) + 1]

LoopTasks(p) == {t \in DOMAIN p.task : p.task[t] = "running"}

\* asyncio.wait_for(_worker_shutdown_event.wait(), timeout=sleep_time)
\* returns when the event is set or the timeout has passed
IdleWaitOver(p) ==
    p.event = "set" \/ p.waited >= SleepTime(p.idle_index - 1)

\* A start_worker without the test of the running task
WorkerStartAlways(cfg) ==
    /\ pw.stop = "none"
    /\ IF cfg # "ok"
       THEN pw' = [pw EXCEPT !.last = "start refused"]
       ELSE \E t \in DOMAIN pw.task :
              /\ pw.task[t] = "none"
              /\ \A u \in 1..(t - 1) : pw.task[u] # "none"
              /\ pw' = [pw EXCEPT !.task[t] = "running", !.worker_task = t,
                                  !.event = "clear", !.loop = "startup",
                                  !.idle_index = 0, !.waited = 0,
                                  !.last = "start"]
    /\ UNCHANGED notWorker

\* start_worker(): nothing happens when the worker is disabled, when a task
\* runs, or when Supabase is not configured; otherwise a new event and a new
\* task are created
WorkerStart(cfg) ==
    /\ pw.stop = "none"
    /\ IF cfg = "disabled"
       THEN pw' = [pw EXCEPT !.last = "start refused"]
       ELSE IF pw.worker_task # 0 /\ pw.task[pw.worker_task] = "running"
       THEN pw' = [pw EXCEPT !.last = "start skipped"]
       ELSE IF cfg = "no supabase"
       THEN pw' = [pw EXCEPT !.last = "start refused"]
       ELSE \E t \in DOMAIN pw.task :
              /\ pw.task[t] = "none"
              /\ \A u \in 1..(t - 1) : pw.task[u] # "none"
              /\ pw' = [pw EXCEPT !.task[t] = "running", !.worker_task = t,
                                  !.event = "clear", !.loop = "startup",
                                  !.idle_index = 0, !.waited = 0,
                                  !.last = "start"]
    /\ UNCHANGED notWorker

\* stop_worker() up to its await: without a task it returns, otherwise it
\* sets the event and waits for the task
WorkerStop ==
    /\ pw.stop = "none"
    /\ pw' = IF pw.worker_task = 0
             THEN [pw EXCEPT !.last = "stop"]
             ELSE [pw EXCEPT !.event = "set", !.stop = "waiting", !.stopwait = 0]
    /\ UNCHANGED notWorker

\* The task ended before the timeout: the globals are cleared
WorkerStopJoin ==
    /\ pw.stop = "waiting"
    /\ pw.task[pw.worker_task] # "running"
    /\ pw' = [pw EXCEPT !.worker_task = 0, !.event = "none", !.stop = "none",
                        !.stopwait = 0, !.last = "stop"]
    /\ UNCHANGED notWorker

\* The timeout passed: the task is cancelled and the globals are cleared
WorkerStopTimeout ==
    /\ pw.stop = "waiting"
    /\ pw.task[pw.worker_task] = "running"
    /\ pw.stopwait >= StopTimeout
    /\ pw' = [pw EXCEPT !.task[pw.worker_task] = "cancelled", !.loop = "none",
                        !.waited = 0, !.idle_index = 0,
                        !.worker_task = 0, !.event = "none", !.stop = "none",
                        !.stopwait = 0, !.last = "stop"]
    /\ UNCHANGED notWorker

\* await asyncio.sleep(startup_delay) is over
LoopStartup ==
    /\ pw.loop = "startup"
    /\ pw.waited >= 1
    /\ pw' = [pw EXCEPT !.loop = "test", !.waited = 0]
    /\ UNCHANGED notWorker

\* while not _worker_shutdown_event.is_set()
LoopTest ==
    /\ pw.loop = "test"
    /\ pw' = IF pw.event = "set"
             THEN [pw EXCEPT !.loop = "none", !.task[pw.worker_task] = "done",
                             !.idle_index = 0]
             ELSE [pw EXCEPT !.loop = "dequeue"]
    /\ UNCHANGED notWorker

\* The dequeue call: it returns jobs, returns none, or raises
LoopDequeue(outcome) ==
    /\ pw.loop = "dequeue"
    /\ pw.polls < MaxPolls
    /\ pw' = [pw EXCEPT
                !.polls = @ + 1,
                !.waited = 0,
                !.loop = CASE outcome = "jobs" -> "processing"
                           [] outcome = "empty" -> "idle"
                           [] OTHER -> "error",
                !.idle_index = CASE outcome = "jobs" -> 0
                                 [] outcome = "empty" -> Min(@ + 1, Len(IdleBackoff))
                                 [] OTHER -> @]
    /\ UNCHANGED notWorker

\* The idle wait returns: break when the event is set, continue otherwise
LoopIdleOver ==
    /\ pw.loop = "idle"
    /\ IdleWaitOver(pw)
    /\ pw' = IF pw.event = "set"
             THEN [pw EXCEPT !.loop = "none", !.task[pw.worker_task] = "done",
                             !.waited = 0, !.idle_index = 0]
             ELSE [pw EXCEPT !.loop = "test", !.waited = 0]
    /\ UNCHANGED notWorker

\* asyncio.gather of the jobs returns
LoopProcessed ==
    /\ pw.loop = "processing"
    /\ pw' = [pw EXCEPT !.loop = "pause", !.waited = 0]
    /\ UNCHANGED notWorker

\* The pause between batches, or the pause after an error, is over
LoopPauseOver ==
    /\ pw.loop \in {"pause", "error"}
    /\ pw.waited >= 1
    /\ pw' = [pw EXCEPT !.loop = "test", !.waited = 0]
    /\ UNCHANGED notWorker

\* A tick of the clock, while the loop sleeps or processes and nothing that
\* waits is due
WorkerTick ==
    /\ \/ pw.loop \in {"startup", "pause", "error"} /\ pw.waited < 1
       \/ pw.loop = "idle" /\ ~IdleWaitOver(pw)
       \/ pw.loop = "processing" /\ pw.stop = "waiting"
    /\ pw.stop = "waiting" => pw.stopwait < StopTimeout
    /\ pw' = [pw EXCEPT
                !.waited = IF pw.loop = "processing" THEN @ ELSE @ + 1,
                !.stopwait = IF pw.stop = "waiting" THEN @ + 1 ELSE @,
                !.shutdown_wait = IF pw.loop = "idle" /\ pw.event = "set"
                                  THEN Min(@ + 1, 1) ELSE @]
    /\ UNCHANGED notWorker

NextWorker ==
    \/ \E cfg \in {"ok", "disabled", "no supabase"} : WorkerStart(cfg)
    \/ WorkerStop
    \/ WorkerStopJoin
    \/ WorkerStopTimeout
    \/ LoopStartup
    \/ LoopTest
    \/ \E outcome \in {"jobs", "empty", "raise"} : LoopDequeue(outcome)
    \/ LoopIdleOver
    \/ LoopProcessed
    \/ LoopPauseOver
    \/ WorkerTick

SpecWorker == Init /\ [][NextWorker]_vars

\* ----------------------------------------------------------------- C38
\* C38: at most one worker loop task exists at any time, and start_worker
\* while a task runs starts nothing; once stop_worker has returned no task
\* runs and no dequeue follows; a shutdown request that arrives during an
\* idle wait ends the loop without the rest of the backoff; start_worker
\* after stop_worker starts a fresh loop.
C38_OneWorkerLoop ==
    /\ [](/\ Cardinality(LoopTasks(pw)) <= 1
          /\ pw.last = "stop" => LoopTasks(pw) = {} /\ pw.loop = "none"
          /\ pw.shutdown_wait = 0
          /\ (pw.last = "start" /\ pw.stop = "none") =>
                 /\ LoopTasks(pw) = {pw.worker_task}
                 /\ pw.event = "clear"
                 /\ pw.loop # "none")
    /\ [][/\ LoopTasks(pw) # {} =>
                 \A t \in DOMAIN pw.task : pw.task[t] = "none" => pw'.task[t] = "none"
          /\ (pw.last = "stop" /\ pw'.last = "stop") => pw'.polls = pw.polls
          /\ (pw.last = "stop" /\ pw'.last = "start") =>
                 /\ pw.task[pw'.worker_task] = "none"
                 /\ pw'.loop = "startup"
          /\ (pw.loop = "idle" /\ pw.event = "set" /\ pw'.loop # "idle") =>
                 pw'.loop = "none" /\ pw'.polls = pw.polls]_vars

\* A second loop started after the first one was stopped during an idle wait
C38_Witness ==
    /\ pw.task[1] = "done"
    /\ pw.task[2] = "running"
    /\ pw.last = "start"
    /\ pw.polls = 1
    /\ pw.loop = "startup"

====
